---- MODULE Spec2Model ----
(***************************************************************************)
(* Biometric matching and decision logic of Gaming-Through-Voice:          *)
(*   - the OpenCV face server (FaceRecognition/opencv_server/app.py with   *)
(*     face_recognizer.py and database_manager.py),                        *)
(*   - the hybrid voice verifier (VoiceBackend/hybrid_voice_verification), *)
(*   - the embedding speaker verifier (VoiceBackend/speaker_verification), *)
(*   - the GMM voice authenticator (VoiceBackend/voice_authentication).    *)
(*                                                                         *)
(* Real numbers are fixed-point thousandths (0.85 is 850); division and    *)
(* square root round down.  One behaviour drives one component; the        *)
(* variable component says which.                                          *)
(***************************************************************************)
EXTENDS Integers, Sequences, FiniteSets, TLC

VARIABLES
    component,            \* which service object this behaviour drives
    models_loaded,        \* app.py global
    database_connected,   \* app.py global
    config,               \* app.py global: the face_recognition section of config.json
    FaceEmbeddings,       \* table FaceEmbeddings: per UserId, the rows oldest first
    hybrid_models,        \* voice_models_hybrid/speaker_<id>.pkl
    embedding_models,     \* voice_models_embeddings/speaker_<id>.pkl
    gmm_models,           \* voice_models/user_<id>.pkl
    deleted,              \* history: identities deleted and not enrolled since
    registered,           \* history: successful /register calls per identity
    pending,              \* requests in flight on the server threads
    model_input,          \* the blob last given to FaceRecognizer.model.setInput
    call                  \* the last call: its request and what it returned

vars == <<component, models_loaded, database_connected, config, FaceEmbeddings,
          hybrid_models, embedding_models, gmm_models, deleted, registered, pending,
          model_input, call>>

faceVars == <<models_loaded, database_connected, config, FaceEmbeddings>>
voiceVars == <<hybrid_models, embedding_models, gmm_models>>
sessionVars == <<registered, pending, model_input>>

----------------------------------------------------------------------------
(* Bounds *)

\* rows the FaceEmbeddings table can hold in a behaviour
MaxRows == 2

(* Fixed-point unit: thousandths *)
Scale == 10 * 100

None == "None"

Users == {1, 2}

Max2(a, b) == IF a >= b THEN a ELSE b
Min2(a, b) == IF a <= b THEN a ELSE b

RECURSIVE SqrtBetween(_, _, _)
SqrtBetween(n, lo, hi) ==
    IF lo >= hi THEN lo
    ELSE LET mid == (lo + hi + 1) \div 2
         IN  IF mid * mid <= n THEN SqrtBetween(n, mid, hi)
                               ELSE SqrtBetween(n, lo, mid - 1)

\* floor of the square root
Sqrt(n) == SqrtBetween(n, 0, IF n < 46340 THEN n ELSE 46340)

RECURSIVE SumSeq(_)
SumSeq(s) == IF s = <<>> THEN 0 ELSE Head(s) + SumSeq(Tail(s))

RECURSIVE MaxSeq(_)
MaxSeq(s) == IF Len(s) = 1 THEN s[1] ELSE Max2(s[1], MaxSeq(Tail(s)))

Reverse(s) == [i \in 1..Len(s) |-> s[Len(s) + 1 - i]]

----------------------------------------------------------------------------
(* Face embeddings.  An embedding is a numpy array of shape (shape,) whose *)
(* leading components are lead and whose other components are 0.           *)

EmbeddingDim == 128

Embedding(n, lead) == [shape |-> n, lead |-> lead]

e0 == Embedding(EmbeddingDim, <<1, 0, 0, 0>>)
eA == Embedding(EmbeddingDim, <<7, 1, 7, 1>>)
eB == Embedding(EmbeddingDim, <<0, 1, 0, 0>>)
eZero == Embedding(EmbeddingDim, <<0, 0, 0, 0>>)
e64 == Embedding(64, <<1, 0, 0, 0>>)

dot(a, b) == SumSeq([i \in 1..Len(a.lead) |-> a.lead[i] * b.lead[i]])
norm(a) == Sqrt(dot(a, a))

Raise(e) == [ok |-> FALSE, error |-> e]
Return(v) == [ok |-> TRUE, value |-> v]

compare_embeddings_clip(similarity) == Max2(0, Min2(Scale, similarity))

\* FaceRecognizer.compare_embeddings
compare_embeddings(embedding1, embedding2) ==
    IF embedding1.shape = 0 \/ embedding2.shape = 0 THEN Raise("ValueError")
    ELSE IF embedding1.shape # embedding2.shape THEN Raise("ValueError")
    ELSE IF embedding1.shape # EmbeddingDim THEN Raise("ValueError")
    ELSE LET dot_product == dot(embedding1, embedding2)
             norm1 == norm(embedding1)
             norm2 == norm(embedding2)
         IN  IF norm1 = 0 \/ norm2 = 0 THEN Return(0)
             ELSE LET cosine_similarity == (dot_product * Scale) \div (norm1 * norm2)
                      similarity == (cosine_similarity + Scale) \div 2
                  IN  Return(compare_embeddings_clip(similarity))

----------------------------------------------------------------------------
(* JSON values of a request body *)

Missing == [t |-> "missing", n |-> 0, s |-> ""]
JInt(n) == [t |-> "int", n |-> n, s |-> ""]
JStr(s) == [t |-> "str", n |-> 0, s |-> s]

\* Python values handed to DatabaseManager.  An int that fits 32 bits is
\* JInt(n); JBeyond(n) is the int 2147483647 + n for n >= 1, which no number
\* of this module can hold; JFloat(n) is the float n.5 and JNone is None
JBeyond(n) == [t |-> "bigint", n |-> n, s |-> ""]
JFloat(n) == [t |-> "float", n |-> n, s |-> ""]
JNone == [t |-> "none", n |-> 0, s |-> ""]

\* isinstance(v, int)
isinstance_int(v) == v.t \in {"int", "bigint"}

\* v <= m and v > m for an int v and a number m of 32 bits
int_le(v, m) == v.t = "int" /\ v.n <= m
int_gt(v, m) == v.t = "bigint" \/ v.n > m

\* int(data['user_id'])
int(x) ==
    IF isinstance_int(x) THEN Return(x)
    ELSE IF x.t = "str" /\ x.s = "2" THEN Return(JInt(2))
    ELSE IF x.t = "str" /\ x.s = "1" THEN Return(JInt(1))
    ELSE IF x.t = "float" THEN Return(JInt(x.n))
    ELSE Raise("ValueError")

----------------------------------------------------------------------------
(* DatabaseManager: the table is a function from UserId to its rows in     *)
(* insertion order (CreatedDate ascending); every query has WHERE UserId=? *)

\* json.dumps(embedding.tolist())
json_dumps(embedding) == <<embedding.shape, embedding.lead>>

\* np.array(json.loads(row[0]), dtype=np.float32)
json_loads(row) == Embedding(row[1], row[2])

RECURSIVE SumOver(_, _)
SumOver(f, S) ==
    IF S = {} THEN 0 ELSE LET x == CHOOSE y \in S : TRUE IN f[x] + SumOver(f, S \ {x})

TotalRows(table) == SumOver([u \in Users |-> Len(table[u])], Users)

\* a version of the check that leaves out the upper bound
validate_user_id_unbounded(user_id) ==
    IF ~isinstance_int(user_id) THEN Raise("ValueError")
    ELSE IF int_le(user_id, 0) THEN Raise("ValueError")
    ELSE Return(None)

\* DatabaseManager._validate_user_id
validate_user_id(user_id) ==
    IF ~isinstance_int(user_id) THEN Raise("ValueError")
    ELSE IF int_le(user_id, 0) THEN Raise("ValueError")
    ELSE IF int_gt(user_id, 2147483647) THEN Raise("ValueError")
    ELSE Return(None)

\* the INSERT of store_embedding
insert_row(table, user_id, embedding) ==
    [table EXCEPT ![user_id] = Append(@, json_dumps(embedding))]

\* DatabaseManager.store_embedding: the result and the table afterwards
store_embedding(table, user_id, embedding, db_ok) ==
    IF ~validate_user_id(user_id).ok THEN [result |-> Raise("ValueError"), table |-> table]
    ELSE IF embedding.shape = 0 THEN [result |-> Raise("ValueError"), table |-> table]
    ELSE IF ~db_ok THEN [result |-> Raise("pyodbc.Error"), table |-> table]
    ELSE [result |-> Return(TRUE), table |-> insert_row(table, user_id.n, embedding)]

\* a SELECT that returns the rows in the order of their insertion
select_rows_oldest_first(table, user_id) == table[user_id]

\* the SELECT of get_embeddings_for_user: ORDER BY CreatedDate DESC
select_rows(table, user_id) == Reverse(table[user_id])

\* DatabaseManager.get_embeddings_for_user
get_embeddings_for_user(table, user_id, db_ok) ==
    IF ~validate_user_id(user_id).ok THEN Raise("ValueError")
    ELSE IF ~db_ok THEN Raise("pyodbc.Error")
    ELSE LET rows == select_rows(table, user_id.n)
         IN  Return([i \in 1..Len(rows) |-> json_loads(rows[i])])

\* a DELETE that removes only the newest row of the user
delete_rows_newest_only(table, user_id) ==
    [table EXCEPT ![user_id] = IF @ = <<>> THEN <<>> ELSE SubSeq(@, 1, Len(@) - 1)]

\* the DELETE of delete_embeddings_for_user
delete_rows(table, user_id) == [table EXCEPT ![user_id] = <<>>]

\* a delete that reads the number of rows left instead of cursor.rowcount
delete_embeddings_counting_after(table, user_id, db_ok) ==
    IF ~validate_user_id(user_id).ok THEN [result |-> Raise("ValueError"), table |-> table]
    ELSE IF ~db_ok THEN [result |-> Raise("pyodbc.Error"), table |-> table]
    ELSE [result |-> Return(Len(delete_rows(table, user_id.n)[user_id.n])),
          table |-> delete_rows(table, user_id.n)]

\* DatabaseManager.delete_embeddings_for_user: the result and the table afterwards
delete_embeddings_for_user(table, user_id, db_ok) ==
    IF ~validate_user_id(user_id).ok THEN [result |-> Raise("ValueError"), table |-> table]
    ELSE IF ~db_ok THEN [result |-> Raise("pyodbc.Error"), table |-> table]
    ELSE [result |-> Return(Len(table[user_id.n])), table |-> delete_rows(table, user_id.n)]

\* a COUNT(*) that leaves out the WHERE UserId = ? clause
get_embedding_count_all_users(table, user_id, db_ok) ==
    IF ~validate_user_id(user_id).ok THEN Raise("ValueError")
    ELSE IF ~db_ok THEN Raise("pyodbc.Error")
    ELSE Return(TotalRows(table))

\* DatabaseManager.get_embedding_count_for_user
get_embedding_count_for_user(table, user_id, db_ok) ==
    IF ~validate_user_id(user_id).ok THEN Raise("ValueError")
    ELSE IF ~db_ok THEN Raise("pyodbc.Error")
    ELSE Return(Len(table[user_id.n]))

----------------------------------------------------------------------------
(* The face server's requests.  An image is what the collaborators make   *)
(* of it: whether it decodes, what the detector, the preprocessor and the  *)
(* recognizer answer.                                                      *)

Image(embedding) ==
    [t |-> "image", is_str |-> TRUE, decodes |-> TRUE, detect |-> "ok", faces |-> 1,
     preprocess |-> "ok", extract |-> "ok", embedding |-> embedding]

BadImages ==
    { [Image(e0) EXCEPT !.is_str = FALSE],
      [Image(e0) EXCEPT !.decodes = FALSE],
      [Image(e0) EXCEPT !.detect = "ValueError"],
      [Image(e0) EXCEPT !.detect = "Exception"],
      [Image(e0) EXCEPT !.faces = 0],
      [Image(e0) EXCEPT !.faces = 2],
      [Image(e0) EXCEPT !.preprocess = "Exception"],
      [Image(e0) EXCEPT !.extract = "ValueError"],
      [Image(e0) EXCEPT !.extract = "Exception"] }

\* what FaceRecognizer.extract_embedding returns: always EmbeddingDim components
ProbeEmbeddings == {e0, eA, eB, eZero}

\* what /register stores in this model
EnrollEmbeddings == {e0, eB}

Body(user_id, image) == [json |-> TRUE, user_id |-> user_id, image |-> image]
NoBody == [json |-> FALSE, user_id |-> Missing, image |-> Missing]

UserIdValues == {JInt(u) : u \in Users} \cup {JInt(0), JStr("2"), JStr("x")}

MalformedBodies ==
    {NoBody, Body(Missing, Image(e0)), Body(JInt(1), Missing)}
    \cup {Body(JInt(0), Image(e0)), Body(JStr("x"), Image(e0))}
    \cup {Body(JInt(1), i) : i \in BadImages}

RegisterBodies ==
    MalformedBodies
    \cup {Body(u, Image(e)) : u \in {JInt(v) : v \in Users} \cup {JStr("2")},
                              e \in EnrollEmbeddings}

AuthenticateBodies ==
    MalformedBodies
    \cup {Body(u, Image(e)) : u \in {JInt(v) : v \in Users} \cup {JStr("2")},
                              e \in ProbeEmbeddings}

\* config.get('face_recognition', {}).get(key, default)
config_get(cfg, key, default) ==
    IF key \in DOMAIN cfg.face_recognition THEN cfg.face_recognition[key] ELSE default

embeddings_per_user_default == 5
authentication_threshold_default == 850

\* config before load_config
NoConfig == [loaded |-> FALSE, face_recognition |-> <<>>]

\* the config.json files of this model: one that leaves the defaults, one that
\* sets embeddings_per_user
ConfigFiles ==
    { [loaded |-> TRUE, face_recognition |-> <<>>],
      [loaded |-> TRUE, face_recognition |-> [embeddings_per_user |-> 2]] }

Failure(status, error_code) == [ok |-> FALSE, status |-> status, error_code |-> error_code]

\* register_face / authenticate_face, from request.get_json() to extract_embedding:
\* the parsed user_id and the probe embedding, or the error response
request_embedding(body) ==
    IF ~body.json THEN Failure(400, "INVALID_REQUEST")
    ELSE IF body.user_id = Missing THEN Failure(400, "MISSING_USER_ID")
    ELSE IF body.image = Missing THEN Failure(400, "MISSING_IMAGE")
    ELSE IF ~int(body.user_id).ok THEN Failure(400, "INVALID_USER_ID")
    ELSE IF int_le(int(body.user_id).value, 0) THEN Failure(400, "INVALID_USER_ID")
    ELSE IF ~body.image.is_str THEN Failure(400, "INVALID_IMAGE")
    ELSE IF ~body.image.decodes THEN Failure(400, "INVALID_IMAGE")
    ELSE IF body.image.detect = "ValueError" THEN Failure(400, "INVALID_IMAGE_DATA")
    ELSE IF body.image.detect # "ok" THEN Failure(500, "FACE_DETECTION_FAILED")
    ELSE IF body.image.faces = 0 THEN Failure(400, "NO_FACE_DETECTED")
    ELSE IF body.image.faces > 1 THEN Failure(400, "MULTIPLE_FACES_DETECTED")
    ELSE IF body.image.preprocess # "ok" THEN Failure(500, "PREPROCESSING_FAILED")
    ELSE IF body.image.extract = "ValueError" THEN Failure(400, "INVALID_FACE_IMAGE")
    ELSE IF body.image.extract # "ok" THEN Failure(500, "EMBEDDING_EXTRACTION_FAILED")
    ELSE [ok |-> TRUE, user_id |-> int(body.user_id).value,
          embedding |-> body.image.embedding]

\* a user id in a response or a log line of this module: the int when it
\* fits 32 bits, 0 otherwise
shown(user_id) == IF user_id.t = "int" THEN user_id.n ELSE 0

\* the user_id of a request as far as it could be parsed (0 when it could not)
RequestUser(body) ==
    IF body.json /\ body.user_id # Missing /\ int(body.user_id).ok
    THEN shown(int(body.user_id).value) ELSE 0

\* the requests the input checks of register_face and authenticate_face are
\* there to turn away: no JSON body, no user_id or image, a user_id that is
\* not a positive integer DatabaseManager takes, an image that is not a
\* decodable base64 string
MalformedRequest(body) ==
    \/ ~body.json
    \/ body.user_id = Missing
    \/ body.image = Missing
    \/ ~int(body.user_id).ok
    \/ ~validate_user_id(int(body.user_id).value).ok
    \/ ~body.image.is_str
    \/ ~body.image.decodes

\* the error codes of the input checks
ValidationErrors ==
    {"INVALID_REQUEST", "MISSING_USER_ID", "MISSING_IMAGE", "INVALID_USER_ID",
     "INVALID_IMAGE"}

----------------------------------------------------------------------------
(* POST /register *)

RegisterError(body, status, error_code) ==
    [op |-> "register", user_id |-> RequestUser(body), status |-> status,
     success |-> FALSE, error_code |-> error_code]

\* register_face: the response and the table afterwards
register_face(table, body, db_store_ok, db_count_ok) ==
    IF ~models_loaded \/ ~database_connected
    THEN [response |-> RegisterError(body, 503, "SERVER_NOT_READY"), table |-> table]
    ELSE LET req == request_embedding(body) IN
    IF ~req.ok
    THEN [response |-> RegisterError(body, req.status, req.error_code), table |-> table]
    ELSE LET stored == store_embedding(table, req.user_id, req.embedding, db_store_ok) IN
    IF ~stored.result.ok /\ stored.result.error = "ValueError"
    THEN [response |-> RegisterError(body, 400, "INVALID_EMBEDDING"), table |-> stored.table]
    ELSE IF ~stored.result.ok
    THEN [response |-> RegisterError(body, 500, "DATABASE_ERROR"), table |-> stored.table]
    ELSE LET counted == get_embedding_count_for_user(stored.table, req.user_id, db_count_ok) IN
    IF ~counted.ok
    THEN [response |-> RegisterError(body, 500, "INTERNAL_ERROR"), table |-> stored.table]
    ELSE LET embeddings_count == counted.value
             minimum_required ==
                 config_get(config, "embeddings_per_user", embeddings_per_user_default)
         IN  [response |->
                  [op |-> "register", user_id |-> shown(req.user_id), status |-> 200,
                   success |-> TRUE, error_code |-> None,
                   embeddings_count |-> embeddings_count,
                   minimum_required |-> minimum_required,
                   registration_complete |-> (embeddings_count >= minimum_required)],
              table |-> stored.table]

\* register_face from its COUNT query on: the response of a request whose
\* row store_embedding has committed
register_face_answer(table, user_id, db_count_ok) ==
    LET counted == get_embedding_count_for_user(table, JInt(user_id), db_count_ok) IN
    IF ~counted.ok
    THEN [op |-> "register", user_id |-> user_id, status |-> 500,
          success |-> FALSE, error_code |-> "INTERNAL_ERROR"]
    ELSE LET embeddings_count == counted.value
             minimum_required ==
                 config_get(config, "embeddings_per_user", embeddings_per_user_default)
         IN  [op |-> "register", user_id |-> user_id, status |-> 200,
              success |-> TRUE, error_code |-> None,
              embeddings_count |-> embeddings_count,
              minimum_required |-> minimum_required,
              registration_complete |-> (embeddings_count >= minimum_required)]

----------------------------------------------------------------------------
(* POST /validate_registration *)

ValidateError(body, status, error_code) ==
    [op |-> "validate_registration", user_id |-> RequestUser(body), status |-> status,
     valid |-> FALSE, embeddings_count |-> 0, minimum_required |-> 5,
     error_code |-> error_code]

\* a validate_registration whose readiness check looks at models_loaded, as
\* the checks of the other two routes do first
validate_registration_models_check(table, body, db_ok) ==
    IF ~models_loaded THEN ValidateError(body, 503, "SERVER_NOT_READY")
    ELSE IF ~body.json THEN ValidateError(body, 400, "INVALID_REQUEST")
    ELSE IF body.user_id = Missing THEN ValidateError(body, 400, "MISSING_USER_ID")
    ELSE IF ~int(body.user_id).ok THEN ValidateError(body, 400, "INVALID_USER_ID")
    ELSE IF int_le(int(body.user_id).value, 0)
    THEN ValidateError(body, 400, "INVALID_USER_ID")
    ELSE LET user_id == int(body.user_id).value
             counted == get_embedding_count_for_user(table, user_id, db_ok)
         IN
    IF ~counted.ok THEN ValidateError(body, 500, "DATABASE_ERROR")
    ELSE LET embeddings_count == counted.value
             minimum_required ==
                 config_get(config, "embeddings_per_user", embeddings_per_user_default)
         IN  [op |-> "validate_registration", user_id |-> shown(user_id), status |-> 200,
              valid |-> (embeddings_count >= minimum_required),
              embeddings_count |-> embeddings_count,
              minimum_required |-> minimum_required, error_code |-> None]

\* validate_registration: the response
validate_registration(table, body, db_ok) ==
    IF ~database_connected THEN ValidateError(body, 503, "SERVER_NOT_READY")
    ELSE IF ~body.json THEN ValidateError(body, 400, "INVALID_REQUEST")
    ELSE IF body.user_id = Missing THEN ValidateError(body, 400, "MISSING_USER_ID")
    ELSE IF ~int(body.user_id).ok THEN ValidateError(body, 400, "INVALID_USER_ID")
    ELSE IF int_le(int(body.user_id).value, 0)
    THEN ValidateError(body, 400, "INVALID_USER_ID")
    ELSE LET user_id == int(body.user_id).value
             counted == get_embedding_count_for_user(table, user_id, db_ok)
         IN
    IF ~counted.ok THEN ValidateError(body, 500, "DATABASE_ERROR")
    ELSE LET embeddings_count == counted.value
             minimum_required ==
                 config_get(config, "embeddings_per_user", embeddings_per_user_default)
         IN  [op |-> "validate_registration", user_id |-> shown(user_id), status |-> 200,
              valid |-> (embeddings_count >= minimum_required),
              embeddings_count |-> embeddings_count,
              minimum_required |-> minimum_required, error_code |-> None]

----------------------------------------------------------------------------
(* POST /authenticate *)

AuthenticateError(body, status, error_code, similarity_scores) ==
    [op |-> "authenticate", user_id |-> RequestUser(body), status |-> status,
     success |-> FALSE, confidence |-> 0, error_code |-> error_code,
     similarity_scores |-> similarity_scores]

\* max(max_similarity, similarity)
max_similarity_step(max_similarity, similarity) == Max2(max_similarity, similarity)

\* the for loop of authenticate_face over stored_embeddings[i..]: the scores
\* appended so far, the running maximum, and whether a comparison raised
RECURSIVE compare_all(_, _, _, _, _)
compare_all(current_embedding, stored_embeddings, i, similarity_scores, max_similarity) ==
    IF i > Len(stored_embeddings)
    THEN [ok |-> TRUE, similarity_scores |-> similarity_scores,
          max_similarity |-> max_similarity]
    ELSE LET similarity == compare_embeddings(current_embedding, stored_embeddings[i]) IN
         IF ~similarity.ok
         THEN [ok |-> FALSE, similarity_scores |-> similarity_scores,
               max_similarity |-> max_similarity]
         ELSE compare_all(current_embedding, stored_embeddings, i + 1,
                          Append(similarity_scores, similarity.value),
                          max_similarity_step(max_similarity, similarity.value))

\* a gate that forgets the minimum
enrollment_gate_without_minimum(stored_count, minimum_required) ==
    IF stored_count = 0 THEN "NO_EMBEDDINGS_FOUND" ELSE "pass"

\* a gate that tests the minimum before it tests for no rows at all
enrollment_gate_minimum_first(stored_count, minimum_required) ==
    IF stored_count < minimum_required THEN "INSUFFICIENT_EMBEDDINGS"
    ELSE IF stored_count = 0 THEN "NO_EMBEDDINGS_FOUND"
    ELSE "pass"

\* the enrollment gate of authenticate_face: "NO_EMBEDDINGS_FOUND",
\* "INSUFFICIENT_EMBEDDINGS" or "pass"
enrollment_gate(stored_count, minimum_required) ==
    IF stored_count = 0 THEN "NO_EMBEDDINGS_FOUND"
    ELSE IF stored_count < minimum_required THEN "INSUFFICIENT_EMBEDDINGS"
    ELSE "pass"

\* a threshold test that rejects equality
threshold_passed_strictly(max_similarity, auth_threshold) == max_similarity > auth_threshold

\* max_similarity >= auth_threshold
threshold_passed(max_similarity, auth_threshold) == max_similarity >= auth_threshold

\* authenticate_face: the response (the table is only read)
authenticate_face(table, body, db_ok) ==
    IF ~models_loaded \/ ~database_connected
    THEN AuthenticateError(body, 503, "SERVER_NOT_READY", <<>>)
    ELSE LET req == request_embedding(body) IN
    IF ~req.ok THEN AuthenticateError(body, req.status, req.error_code, <<>>)
    ELSE LET got == get_embeddings_for_user(table, req.user_id, db_ok) IN
    IF ~got.ok THEN AuthenticateError(body, 500, "DATABASE_ERROR", <<>>)
    ELSE LET stored_embeddings == got.value
             minimum_required ==
                 config_get(config, "embeddings_per_user", embeddings_per_user_default)
             gate == enrollment_gate(Len(stored_embeddings), minimum_required)
         IN
    IF gate = "NO_EMBEDDINGS_FOUND"
    THEN AuthenticateError(body, 404, "NO_EMBEDDINGS_FOUND", <<>>)
    ELSE IF gate = "INSUFFICIENT_EMBEDDINGS"
    THEN AuthenticateError(body, 400, "INSUFFICIENT_EMBEDDINGS", <<>>)
    ELSE LET compared == compare_all(req.embedding, stored_embeddings, 1, <<>>, 0)
             auth_threshold ==
                 config_get(config, "authentication_threshold",
                            authentication_threshold_default)
         IN
    IF ~compared.ok
    THEN AuthenticateError(body, 500, "INVALID_EMBEDDING", compared.similarity_scores)
    ELSE IF threshold_passed(compared.max_similarity, auth_threshold)
    THEN [op |-> "authenticate", user_id |-> shown(req.user_id), status |-> 200,
          success |-> TRUE, confidence |-> compared.max_similarity,
          error_code |-> None, similarity_scores |-> compared.similarity_scores]
    ELSE [op |-> "authenticate", user_id |-> shown(req.user_id), status |-> 401,
          success |-> FALSE, confidence |-> compared.max_similarity,
          error_code |-> None, similarity_scores |-> compared.similarity_scores]

----------------------------------------------------------------------------
(* Actions of the face server and of DatabaseManager *)

\* deleted[u] tells whether the last enrolment change of u was a completed
\* delete: "no", "nothing" (a delete that found nothing) or "removed"
NotDeleted == [u \in Users |-> "no"]
mark_enrolled(d, S) == [u \in Users |-> IF u \in S THEN "no" ELSE d[u]]
mark_deleted(d, user_id, removed) ==
    [u \in Users |-> IF u # user_id THEN d[u] ELSE IF removed THEN "removed" ELSE "nothing"]

\* registered[u]: whether the behaviour keeps this history (tracked), whether
\* since u last had no samples its rows came from one /register after the
\* other and from nothing else (sequential), and how many of those /register
\* calls answered success=true (n)
Untracked == [tracked |-> FALSE, sequential |-> FALSE, n |-> 0]
Fresh == [tracked |-> TRUE, sequential |-> TRUE, n |-> 0]
note_register(reg, response) ==
    IF response.success /\ response.user_id \in Users /\ reg[response.user_id].tracked
    THEN [reg EXCEPT ![response.user_id].n = @ + 1]
    ELSE reg
note_other_insert(reg, user_id) ==
    IF user_id \in Users /\ reg[user_id].tracked THEN [reg EXCEPT ![user_id].sequential = FALSE] ELSE reg
note_delete(reg, user_id) ==
    IF user_id \in Users /\ reg[user_id].tracked THEN [reg EXCEPT ![user_id] = Fresh] ELSE reg

\* the recognizer's network before any setInput
NoInput == [set |-> FALSE, embedding |-> <<>>]

\* the requests in flight, one slot per server thread
Threads == {1, 2}
Idle == [busy |-> FALSE, user_id |-> 0, after_insert |-> 0]

\* identities whose rows differ between two tables
Changed(before, after) == {u \in Users : before[u] # after[u]}

\* identities that gained a row
Enrolled(before, after) == {u \in Users : Len(after[u]) > Len(before[u])}

\* initialize_components, called once at startup
InitializeComponents(outcome, cfg) ==
    /\ component = "face"
    /\ ~config.loaded
    /\ config' = IF outcome = "config_failed" THEN config ELSE cfg
    /\ models_loaded' = (outcome \in {"no_connection_string", "database_failed", "ok"})
    /\ database_connected' = (outcome = "ok")
    /\ call' = [op |-> "initialize_components",
                result |-> (outcome \in {"database_failed", "ok"})]
    /\ UNCHANGED <<component, sessionVars, FaceEmbeddings, voiceVars, deleted>>

InitializeOutcomes ==
    {"config_failed", "model_failed", "no_connection_string", "database_failed", "ok"}

\* POST /register
Register(body, db_store_ok, db_count_ok) ==
    /\ component = "face"
    /\ LET r == register_face(FaceEmbeddings, body, db_store_ok, db_count_ok) IN
       /\ TotalRows(r.table) <= MaxRows
       /\ FaceEmbeddings' = r.table
       /\ deleted' = mark_enrolled(deleted, Enrolled(FaceEmbeddings, r.table))
       /\ registered' = note_register(registered, r.response)
       /\ call' = r.response @@ [malformed |-> MalformedRequest(body)]
    /\ UNCHANGED <<component, pending, model_input, models_loaded, database_connected, config, voiceVars>>

\* POST /register on server thread t, up to the commit of store_embedding:
\* the request answers here when it fails before its COUNT query, and
\* otherwise waits with its row stored
RegisterBegin(t, body, db_store_ok) ==
    /\ component = "face"
    /\ ~pending[t].busy
    /\ LET r == register_face(FaceEmbeddings, body, db_store_ok, TRUE) IN
       /\ TotalRows(r.table) <= MaxRows
       /\ FaceEmbeddings' = r.table
       /\ deleted' = mark_enrolled(deleted, Enrolled(FaceEmbeddings, r.table))
       /\ IF r.response.success
          THEN /\ pending' = [pending EXCEPT ![t] =
                       [busy |-> TRUE, user_id |-> r.response.user_id,
                        after_insert |-> Len(r.table[r.response.user_id])]]
               /\ UNCHANGED model_input
               /\ registered' = note_other_insert(registered, r.response.user_id)
               /\ call' = [op |-> "register_insert", user_id |-> r.response.user_id,
                           thread |-> t]
          ELSE /\ call' = r.response
               /\ UNCHANGED sessionVars
    /\ UNCHANGED <<component, models_loaded, database_connected, config, voiceVars>>

\* POST /register on server thread t, from get_embedding_count_for_user to
\* the response; after_insert is the identity's count as the request's own
\* insert left it
RegisterFinish(t, db_count_ok) ==
    /\ component = "face"
    /\ pending[t].busy
    /\ call' = register_face_answer(FaceEmbeddings, pending[t].user_id, db_count_ok)
                    @@ [thread |-> t, after_insert |-> pending[t].after_insert]
    /\ pending' = [pending EXCEPT ![t] = Idle]
    /\ UNCHANGED <<component, registered, model_input, faceVars, voiceVars, deleted>>

\* the rows of one identity as a SELECT ... WHERE UserId = ? sees them
rows_of(table, user_id) == [u \in Users |-> IF u = user_id THEN table[u] ELSE <<>>]

\* stored_embeddings read again from the table when the gate is taken
stored_embeddings_read_again(t) == rows_of(FaceEmbeddings, pending[t].user_id)

\* the stored_embeddings of the request on thread t: the one result of
\* get_embeddings_for_user that authenticate_face keeps
stored_embeddings_of(t) == pending[t].snapshot

\* POST /authenticate on server thread t, up to face_recognizer.model.setInput:
\* a request that fails before it answers here, another leaves its blob in
\* the network all threads share
AuthenticateBegin(t, body) ==
    /\ component = "face"
    /\ ~pending[t].busy
    /\ LET req == request_embedding(body) IN
       IF ~models_loaded \/ ~database_connected \/ ~req.ok
       THEN /\ call' = authenticate_face(FaceEmbeddings, body, TRUE)
                           @@ [body |-> body, db_ok |-> TRUE]
            /\ UNCHANGED <<pending, model_input>>
       ELSE /\ model_input' = [set |-> TRUE, embedding |-> req.embedding]
            /\ pending' = [pending EXCEPT ![t] =
                    [busy |-> TRUE, stage |-> "input", user_id |-> shown(req.user_id),
                     body |-> body]]
            /\ UNCHANGED call
    /\ UNCHANGED <<component, registered, faceVars, voiceVars, deleted>>

\* POST /authenticate on server thread t, from face_recognizer.model.forward to
\* get_embeddings_for_user: the embedding is that of the blob now in the
\* network, the rows are those of the table now
AuthenticateRead(t, db_ok) ==
    /\ component = "face"
    /\ pending[t].busy
    /\ pending[t].stage = "input"
    /\ pending' = [pending EXCEPT ![t] =
            [busy |-> TRUE, stage |-> "read", user_id |-> pending[t].user_id,
             body |-> pending[t].body,
             current_embedding |-> model_input.embedding,
             snapshot |-> rows_of(FaceEmbeddings, pending[t].user_id),
             db_ok |-> db_ok]]
    /\ UNCHANGED <<component, registered, model_input, faceVars, voiceVars, deleted, call>>

\* POST /authenticate on server thread t, from the enrollment gate to the
\* response; alone is the response to the request's own image on the same rows
AuthenticateFinish(t) ==
    /\ component = "face"
    /\ pending[t].busy
    /\ pending[t].stage = "read"
    /\ LET own == pending[t].body
           forwarded == [own EXCEPT !.image.embedding = pending[t].current_embedding]
       IN  call' = authenticate_face(stored_embeddings_of(t), forwarded, pending[t].db_ok)
                       @@ [thread |-> t,
                           seen |-> Len(pending[t].snapshot[pending[t].user_id]),
                           alone |-> authenticate_face(pending[t].snapshot, own,
                                                       pending[t].db_ok)]
    /\ pending' = [pending EXCEPT ![t] = Idle]
    /\ UNCHANGED <<component, registered, model_input, faceVars, voiceVars, deleted>>

\* POST /validate_registration
ValidateRegistration(body, db_ok) ==
    /\ component = "face"
    /\ call' = validate_registration(FaceEmbeddings, body, db_ok)
    /\ UNCHANGED <<component, sessionVars, faceVars, voiceVars, deleted>>

\* POST /authenticate
Authenticate(body, db_ok) ==
    /\ component = "face"
    /\ call' = authenticate_face(FaceEmbeddings, body, db_ok)
                @@ [body |-> body, db_ok |-> db_ok]
    /\ UNCHANGED <<component, sessionVars, faceVars, voiceVars, deleted>>

\* DatabaseManager.store_embedding called on the server's database_manager,
\* which exists once initialize_components has connected
StoreEmbedding(user_id, embedding, db_ok) ==
    /\ component = "face"
    /\ database_connected
    /\ LET r == store_embedding(FaceEmbeddings, user_id, embedding, db_ok) IN
       /\ TotalRows(r.table) <= MaxRows
       /\ FaceEmbeddings' = r.table
       /\ deleted' = mark_enrolled(deleted, Enrolled(FaceEmbeddings, r.table))
       /\ registered' = IF r.result.ok THEN note_other_insert(registered, shown(user_id))
                        ELSE registered
       /\ call' = [op |-> "store_embedding", user_id |-> shown(user_id), given |-> user_id, result |-> r.result]
    /\ UNCHANGED <<component, pending, model_input, models_loaded, database_connected, config, voiceVars>>

\* DatabaseManager.delete_embeddings_for_user called directly
DeleteEmbeddings(user_id, db_ok) ==
    /\ component = "face"
    /\ database_connected
    /\ LET r == delete_embeddings_for_user(FaceEmbeddings, user_id, db_ok) IN
       /\ FaceEmbeddings' = r.table
       /\ deleted' = IF r.result.ok THEN mark_deleted(deleted, shown(user_id), r.result.value > 0)
                   ELSE deleted
       /\ registered' = IF r.result.ok THEN note_delete(registered, shown(user_id))
                        ELSE registered
       /\ call' = [op |-> "delete_embeddings_for_user", user_id |-> shown(user_id), given |-> user_id,
                   result |-> r.result]
    /\ UNCHANGED <<component, pending, model_input, models_loaded, database_connected, config, voiceVars>>

\* DatabaseManager.get_embeddings_for_user called directly
GetEmbeddings(user_id, db_ok) ==
    /\ component = "face"
    /\ database_connected
    /\ call' = [op |-> "get_embeddings_for_user", user_id |-> shown(user_id), given |-> user_id,
                result |-> get_embeddings_for_user(FaceEmbeddings, user_id, db_ok)]
    /\ UNCHANGED <<component, sessionVars, faceVars, voiceVars, deleted>>

\* DatabaseManager.get_embedding_count_for_user called directly
GetEmbeddingCount(user_id, db_ok) ==
    /\ component = "face"
    /\ database_connected
    /\ call' = [op |-> "get_embedding_count_for_user", user_id |-> shown(user_id), given |-> user_id,
                result |-> get_embedding_count_for_user(FaceEmbeddings, user_id,
                                                        db_ok)]
    /\ UNCHANGED <<component, sessionVars, faceVars, voiceVars, deleted>>

\* the arrays handed to DatabaseManager.store_embedding directly
StoreInputs == {e0, e64}

\* a well-formed request body for user u with a good image of embedding e
GoodBody(u, e) == Body(JInt(u), Image(e))

FaceNext ==
    \/ \E outcome \in InitializeOutcomes, cfg \in ConfigFiles :
           InitializeComponents(outcome, cfg)
    \/ \E body \in MalformedBodies \cup {Body(JStr("2"), Image(e0))} :
           Register(body, TRUE, TRUE)
    \/ \E u \in Users, e \in EnrollEmbeddings :
           \E db \in {<<TRUE, TRUE>>, <<FALSE, TRUE>>, <<TRUE, FALSE>>} :
               Register(GoodBody(u, e), db[1], db[2])
    \/ \E body \in {NoBody, Body(Missing, Missing), Body(JInt(0), Missing),
                    Body(JStr("x"), Missing)} :
           ValidateRegistration(body, TRUE)
    \/ \E u \in Users, db_ok \in BOOLEAN :
           ValidateRegistration(Body(JInt(u), Missing), db_ok)
    \/ \E body \in MalformedBodies \cup {Body(JStr("2"), Image(e0))} :
           Authenticate(body, TRUE)
    \/ \E u \in Users, e \in ProbeEmbeddings : Authenticate(GoodBody(u, e), TRUE)
    \/ \E u \in Users : Authenticate(GoodBody(u, e0), FALSE)
    \/ \E u \in Users, e \in StoreInputs : StoreEmbedding(JInt(u), e, TRUE)
    \/ \E u \in Users : StoreEmbedding(JInt(u), e0, FALSE)
    \/ \E u \in Users, db_ok \in BOOLEAN : DeleteEmbeddings(JInt(u), db_ok)
    \/ \E u \in Users, db_ok \in BOOLEAN : GetEmbeddings(JInt(u), db_ok)
    \/ \E u \in Users, db_ok \in BOOLEAN : GetEmbeddingCount(JInt(u), db_ok)

----------------------------------------------------------------------------
(* Voice: audio samples are what the collaborators make of them.  A voice  *)
(* fingerprint is an L2-normalised vector in thousandths; a transcript is  *)
(* a sequence of characters.                                               *)

vA == <<1000, 0>>
vB == <<939, 345>>
vC == <<936, 352>>
vD == <<0, 1000>>
vE == <<985, 173>>
vZero == <<0, 0>>

\* recordings of this model: long enough or not, whether feature extraction
\* works, the fingerprint it yields, whether the recognizer understands it and
\* the text it returns
Audio(duration_ok, extract_ok, fingerprint, heard, text) ==
    [duration_ok |-> duration_ok, extract_ok |-> extract_ok,
     fingerprint |-> fingerprint, heard |-> heard, text |-> text]

Audios ==
    { Audio(TRUE, TRUE, vA, TRUE, <<"A", "b", "c", " ">>),
      Audio(TRUE, TRUE, vB, TRUE, <<"a", "b">>),
      Audio(TRUE, TRUE, vA, FALSE, <<>>),
      Audio(TRUE, TRUE, vD, TRUE, <<"a", "b", "c">>),
      Audio(TRUE, TRUE, vA, TRUE, <<"b">>),
      Audio(TRUE, TRUE, vC, TRUE, <<"a", "b", "c">>),
      Audio(TRUE, TRUE, vZero, FALSE, <<>>),
      Audio(TRUE, FALSE, vA, TRUE, <<"a", "b", "c">>),
      Audio(FALSE, TRUE, vA, TRUE, <<"a", "b", "c">>) }

\* str.lower() on one character
lower_char(c) == IF c = "A" THEN "a" ELSE IF c = "B" THEN "b" ELSE IF c = "C" THEN "c" ELSE c

lower(text) == [i \in 1..Len(text) |-> lower_char(text[i])]

RECURSIVE lstrip(_)
lstrip(text) == IF text # <<>> /\ Head(text) = " " THEN lstrip(Tail(text)) ELSE text

\* str.strip()
strip(text) == Reverse(lstrip(Reverse(lstrip(text))))

\* a Python value that is None or a str
NoneStr == [is_none |-> TRUE, text |-> <<>>]
Str(text) == [is_none |-> FALSE, text |-> text]

\* truth value of a str-or-None
truthy(p) == ~p.is_none /\ p.text # <<>>

\* HybridVoiceVerification.recognize_speech
recognize_speech(audio) == IF ~audio.heard THEN NoneStr ELSE Str(strip(lower(audio.text)))

\* SequenceMatcher.find_longest_match on whole strings: the longest common
\* block, earliest in a, then earliest in b; k = 0 when there is none
find_longest_match(a, b) ==
    LET blocks == {m \in (1..Len(a)) \X (1..Len(b)) \X (1..Min2(Len(a), Len(b))) :
                      /\ m[1] + m[3] - 1 <= Len(a)
                      /\ m[2] + m[3] - 1 <= Len(b)
                      /\ SubSeq(a, m[1], m[1] + m[3] - 1) = SubSeq(b, m[2], m[2] + m[3] - 1)}
        before(m, n) == \/ m[3] > n[3]
                        \/ m[3] = n[3] /\ m[1] < n[1]
                        \/ m[3] = n[3] /\ m[1] = n[1] /\ m[2] <= n[2]
    IN  IF blocks = {} THEN <<1, 1, 0>>
        ELSE CHOOSE m \in blocks : \A n \in blocks : before(m, n)

\* total size of SequenceMatcher.get_matching_blocks
RECURSIVE matches(_, _)
matches(a, b) ==
    IF a = <<>> \/ b = <<>> THEN 0
    ELSE LET m == find_longest_match(a, b) IN
         IF m[3] = 0 THEN 0
         ELSE m[3] + matches(SubSeq(a, 1, m[1] - 1), SubSeq(b, 1, m[2] - 1))
                   + matches(SubSeq(a, m[1] + m[3], Len(a)), SubSeq(b, m[2] + m[3], Len(b)))

\* SequenceMatcher(None, a, b).ratio()
ratio(a, b) ==
    IF Len(a) + Len(b) = 0 THEN Scale
    ELSE (2 * matches(a, b) * Scale) \div (Len(a) + Len(b))

\* HybridVoiceVerification.calculate_phrase_similarity
calculate_phrase_similarity(phrase1, phrase2) ==
    IF ~truthy(phrase1) \/ ~truthy(phrase2) THEN 0
    ELSE ratio(strip(lower(phrase1.text)), strip(lower(phrase2.text)))

\* sklearn euclidean_distances of two vectors
euclidean_distance(a, b) ==
    Sqrt(SumSeq([i \in 1..Len(a) |-> (a[i] - b[i]) * (a[i] - b[i])]))

VOICE_DISTANCE_THRESHOLD == 350
PHRASE_SIMILARITY_THRESHOLD == 800

\* max(0, min(100, 100 * (1 - voice_distance / 2.0))), in thousandths of a percent
voice_confidence_of(voice_distance) ==
    Max2(0, Min2(100 * Scale, (100 * (2 * Scale - voice_distance)) \div 2))

\* voice_distance <= self.VOICE_DISTANCE_THRESHOLD
voice_match_of(voice_distance) == voice_distance <= VOICE_DISTANCE_THRESHOLD

\* phrase_similarity >= self.PHRASE_SIMILARITY_THRESHOLD
phrase_match_of(phrase_similarity) == phrase_similarity >= PHRASE_SIMILARITY_THRESHOLD

\* a combined confidence that takes the better of the two factors
combined_confidence_of_best(voice_confidence, phrase_similarity) ==
    Max2(voice_confidence, phrase_similarity * 100)

\* (voice_confidence + phrase_similarity * 100) / 2
combined_confidence_of(voice_confidence, phrase_similarity) ==
    (voice_confidence + phrase_similarity * 100) \div 2

----------------------------------------------------------------------------
(* HybridVoiceVerification: hybrid_models[u] is the pickle file            *)
(* speaker_<u>.pkl, or None when there is no such file.                    *)

NoUser == 0

NoModel == [exists |-> FALSE, user_id |-> NoUser, fingerprint |-> <<>>,
            enrollment_phrase |-> <<>>]

\* the dict enroll_speaker pickles
hybrid_record(user_id, fingerprint, enrollment_phrase) ==
    [exists |-> TRUE, user_id |-> user_id, fingerprint |-> fingerprint,
     enrollment_phrase |-> enrollment_phrase]

\* HybridVoiceVerification.enroll_speaker: what it returns and the files afterwards
hybrid_enroll_speaker(models, user_id, audio) ==
    IF ~audio.duration_ok THEN [result |-> FALSE, models |-> models]
    ELSE IF ~audio.extract_ok THEN [result |-> FALSE, models |-> models]
    ELSE LET fingerprint == audio.fingerprint
             recognized == recognize_speech(audio)
             enrollment_phrase == IF ~truthy(recognized) THEN <<>> ELSE recognized.text
         IN  [result |-> TRUE,
              models |-> [models EXCEPT
                             ![user_id] = hybrid_record(user_id, fingerprint,
                                                        enrollment_phrase)]]

\* what verify_speaker returns from its except clause
hybrid_verify_failed(user_id) ==
    [op |-> "verify_speaker", user_id |-> user_id, outcome |-> "error",
     verified |-> FALSE, confidence |-> 0, reason |-> "exception",
     voice_match |-> FALSE, phrase_match |-> FALSE, voice_confidence |-> 0,
     phrase_similarity |-> 0, phrase_enrolled |-> FALSE, recognize_calls |-> 0]

\* a verdict that looks at the voice alone
hybrid_verdict_voice_only(voice_match, phrase_match) == voice_match

\* verified = voice_match and phrase_match
hybrid_verdict(voice_match, phrase_match) == voice_match /\ phrase_match

\* a reason that looks at the phrase before the voice
hybrid_reason_phrase_first(voice_match, phrase_match) ==
    IF ~phrase_match THEN "Phrase mismatch"
    ELSE IF ~voice_match THEN "Voice signature mismatch"
    ELSE "Verified"

\* the reason string of verify_speaker
hybrid_reason(voice_match, phrase_match) ==
    IF ~voice_match THEN "Voice signature mismatch"
    ELSE IF ~phrase_match THEN "Phrase mismatch"
    ELSE "Verified"

\* a phrase step that transcribes the probe whether or not a phrase was enrolled
hybrid_verify_phrase_always(enrolled_phrase, audio) ==
    LET test_phrase == recognize_speech(audio)
        phrase_similarity == calculate_phrase_similarity(Str(enrolled_phrase), test_phrase)
    IN  [phrase_match |-> phrase_match_of(phrase_similarity),
         phrase_similarity |-> phrase_similarity, recognize_calls |-> 1]

\* a phrase step that, like identify_speaker, lets a probe it cannot transcribe pass
hybrid_verify_phrase_lenient(enrolled_phrase, audio) ==
    IF enrolled_phrase # <<>> /\ truthy(recognize_speech(audio))
    THEN LET phrase_similarity ==
                 calculate_phrase_similarity(Str(enrolled_phrase), recognize_speech(audio))
         IN  [phrase_match |-> phrase_match_of(phrase_similarity),
              phrase_similarity |-> phrase_similarity, recognize_calls |-> 1]
    ELSE [phrase_match |-> TRUE, phrase_similarity |-> Scale,
          recognize_calls |-> IF enrolled_phrase # <<>> THEN 1 ELSE 0]

\* step 2 of verify_speaker: phrase_match, phrase_similarity and the number of
\* recognize_speech calls
hybrid_verify_phrase(enrolled_phrase, audio) ==
    IF enrolled_phrase # <<>>
    THEN LET test_phrase == recognize_speech(audio) IN
         IF truthy(test_phrase)
         THEN LET phrase_similarity ==
                      calculate_phrase_similarity(Str(enrolled_phrase), test_phrase)
              IN  [phrase_match |-> phrase_match_of(phrase_similarity),
                   phrase_similarity |-> phrase_similarity, recognize_calls |-> 1]
         ELSE [phrase_match |-> FALSE, phrase_similarity |-> 0, recognize_calls |-> 1]
    ELSE [phrase_match |-> TRUE, phrase_similarity |-> Scale, recognize_calls |-> 0]

\* HybridVoiceVerification.verify_speaker: (verified, combined_confidence, reason)
\* with the locals it was computed from
hybrid_verify_speaker(models, user_id, audio, io_ok) ==
    IF ~models[user_id].exists
    THEN [hybrid_verify_failed(user_id) EXCEPT !.outcome = "not_enrolled",
                                               !.reason = "Not enrolled"]
    ELSE IF ~io_ok THEN hybrid_verify_failed(user_id)
    ELSE IF ~audio.extract_ok THEN hybrid_verify_failed(user_id)
    ELSE LET enrolled_fingerprint == models[user_id].fingerprint
             enrolled_phrase == models[user_id].enrollment_phrase
             voice_distance == euclidean_distance(enrolled_fingerprint, audio.fingerprint)
             voice_confidence == voice_confidence_of(voice_distance)
             voice_match == voice_match_of(voice_distance)
             phrase == hybrid_verify_phrase(enrolled_phrase, audio)
         IN  [op |-> "verify_speaker", user_id |-> user_id, outcome |-> "decided",
              verified |-> hybrid_verdict(voice_match, phrase.phrase_match),
              confidence |-> combined_confidence_of(voice_confidence,
                                                    phrase.phrase_similarity),
              reason |-> hybrid_reason(voice_match, phrase.phrase_match),
              voice_match |-> voice_match, phrase_match |-> phrase.phrase_match,
              voice_confidence |-> voice_confidence,
              phrase_similarity |-> phrase.phrase_similarity,
              phrase_enrolled |-> (enrolled_phrase # <<>>),
              recognize_calls |-> phrase.recognize_calls]

\* the per-user part of the identify_speaker loop: one all_results entry
hybrid_identify_entry(model, test_fingerprint, test_phrase) ==
    LET enrolled_phrase == model.enrollment_phrase
        voice_distance == euclidean_distance(model.fingerprint, test_fingerprint)
        voice_confidence == voice_confidence_of(voice_distance)
        voice_match == voice_match_of(voice_distance)
        checked == enrolled_phrase # <<>> /\ truthy(test_phrase)
        phrase_similarity ==
            IF checked THEN calculate_phrase_similarity(Str(enrolled_phrase), test_phrase)
            ELSE Scale
        phrase_match == IF checked THEN phrase_match_of(phrase_similarity) ELSE TRUE
    IN  [user_id |-> model.user_id, voice_match |-> voice_match,
         phrase_match |-> phrase_match,
         combined_score |-> combined_confidence_of(voice_confidence, phrase_similarity),
         both_match |-> (voice_match /\ phrase_match)]

\* a candidate test that looks at the score alone
hybrid_better_score_only(entry, best_score) == entry.combined_score > best_score

\* if both_match and combined_score > best_score
hybrid_better(entry, best_score) == entry.both_match /\ entry.combined_score > best_score

\* the loop of identify_speaker over the files files[i..] in os.listdir order
RECURSIVE hybrid_identify_loop(_, _, _, _, _, _, _)
hybrid_identify_loop(models, files, i, test_fingerprint, test_phrase, best_match, best_score) ==
    IF i > Len(files) THEN [best_match |-> best_match, best_score |-> best_score]
    ELSE LET entry == hybrid_identify_entry(models[files[i]], test_fingerprint, test_phrase)
         IN  IF hybrid_better(entry, best_score)
             THEN hybrid_identify_loop(models, files, i + 1, test_fingerprint, test_phrase,
                                       entry.user_id, entry.combined_score)
             ELSE hybrid_identify_loop(models, files, i + 1, test_fingerprint, test_phrase,
                                       best_match, best_score)

\* the files of a models directory in one of the orders os.listdir may give
Listings(models) ==
    LET present == {u \in Users : models[u].exists}
    IN  {files \in [1..Cardinality(present) -> present] :
            \A i, j \in 1..Cardinality(present) : files[i] = files[j] => i = j}

\* HybridVoiceVerification.identify_speaker: (best_match, best_score)
hybrid_identify_speaker(models, files, audio, io_ok) ==
    IF ~audio.extract_ok \/ (~io_ok /\ Len(files) > 0)
    THEN [op |-> "identify_speaker", outcome |-> "error", user_id |-> NoUser,
          confidence |-> 0, audio |-> audio]
    ELSE LET best == hybrid_identify_loop(models, files, 1, audio.fingerprint,
                                          recognize_speech(audio), NoUser, -Scale)
         IN  IF best.best_match # NoUser
             THEN [op |-> "identify_speaker", outcome |-> "decided",
                   user_id |-> best.best_match, confidence |-> best.best_score,
                   audio |-> audio]
             ELSE [op |-> "identify_speaker", outcome |-> "decided", user_id |-> NoUser,
                   confidence |-> 0, audio |-> audio]

\* HybridVoiceVerification.delete_speaker: what it returns and the files afterwards
hybrid_delete_speaker(models, user_id, io_ok) ==
    IF ~models[user_id].exists THEN [result |-> FALSE, models |-> models]
    ELSE IF ~io_ok THEN [result |-> FALSE, models |-> models]
    ELSE [result |-> TRUE, models |-> [models EXCEPT ![user_id] = NoModel]]

----------------------------------------------------------------------------
(* SpeakerVerificationSystem: embedding_models[u] is speaker_<u>.pkl       *)

STRICT_THRESHOLD == 985

\* sklearn cosine_similarity of two vectors (a zero vector is left as it is)
cosine_similarity(a, b) ==
    LET dot_product == SumSeq([i \in 1..Len(a) |-> a[i] * b[i]])
        norm_a == Sqrt(SumSeq([i \in 1..Len(a) |-> a[i] * a[i]]))
        norm_b == Sqrt(SumSeq([i \in 1..Len(b) |-> b[i] * b[i]]))
    IN  IF norm_a = 0 \/ norm_b = 0 THEN 0
        ELSE (dot_product * Scale) \div (norm_a * norm_b)

NoEmbeddingModel == [exists |-> FALSE, user_id |-> NoUser, embedding |-> <<>>]

\* SpeakerVerificationSystem.enroll_speaker
speaker_enroll_speaker(models, user_id, audio) ==
    IF ~audio.duration_ok THEN [result |-> FALSE, models |-> models]
    ELSE IF ~audio.extract_ok THEN [result |-> FALSE, models |-> models]
    ELSE [result |-> TRUE,
          models |-> [models EXCEPT ![user_id] =
                         [exists |-> TRUE, user_id |-> user_id,
                          embedding |-> audio.fingerprint]]]

\* if similarity > best_similarity
speaker_better(similarity, best_similarity) == similarity > best_similarity

\* the loop of SpeakerVerificationSystem.identify_speaker over files[i..]
RECURSIVE speaker_identify_loop(_, _, _, _, _, _)
speaker_identify_loop(models, files, i, test_embedding, best_match, best_similarity) ==
    IF i > Len(files) THEN [best_match |-> best_match, best_similarity |-> best_similarity]
    ELSE LET similarity == cosine_similarity(models[files[i]].embedding, test_embedding)
         IN  IF speaker_better(similarity, best_similarity)
             THEN speaker_identify_loop(models, files, i + 1, test_embedding,
                                        models[files[i]].user_id, similarity)
             ELSE speaker_identify_loop(models, files, i + 1, test_embedding,
                                        best_match, best_similarity)

\* if best_match and best_similarity >= threshold
speaker_accept(best_match, best_similarity, threshold) ==
    best_match # NoUser /\ best_similarity >= threshold

\* SpeakerVerificationSystem.identify_speaker: (user_id, confidence)
speaker_identify_speaker(models, files, audio, threshold, io_ok) ==
    IF ~audio.extract_ok \/ (~io_ok /\ Len(files) > 0)
    THEN [op |-> "speaker_identify", outcome |-> "error", user_id |-> NoUser,
          confidence |-> 0, audio |-> audio, threshold |-> threshold]
    ELSE LET best == speaker_identify_loop(models, files, 1, audio.fingerprint, NoUser,
                                           -Scale)
         IN  IF speaker_accept(best.best_match, best.best_similarity, threshold)
             THEN [op |-> "speaker_identify", outcome |-> "decided",
                   user_id |-> best.best_match, confidence |-> best.best_similarity * 100,
                   audio |-> audio, threshold |-> threshold]
             ELSE [op |-> "speaker_identify", outcome |-> "decided", user_id |-> NoUser,
                   confidence |-> 0, audio |-> audio, threshold |-> threshold]

\* SpeakerVerificationSystem.verify_speaker: (verified, confidence)
speaker_verify_speaker(models, user_id, audio, threshold, io_ok) ==
    IF ~models[user_id].exists
    THEN [op |-> "speaker_verify", user_id |-> user_id, outcome |-> "not_enrolled",
          verified |-> FALSE, confidence |-> 0]
    ELSE IF ~io_ok \/ ~audio.extract_ok
    THEN [op |-> "speaker_verify", user_id |-> user_id, outcome |-> "error",
          verified |-> FALSE, confidence |-> 0]
    ELSE LET similarity == cosine_similarity(models[user_id].embedding, audio.fingerprint)
         IN  [op |-> "speaker_verify", user_id |-> user_id, outcome |-> "decided",
              verified |-> (similarity >= threshold), confidence |-> similarity * 100]

\* SpeakerVerificationSystem.delete_speaker
speaker_delete_speaker(models, user_id, io_ok) ==
    IF ~models[user_id].exists THEN [result |-> FALSE, models |-> models]
    ELSE IF ~io_ok THEN [result |-> FALSE, models |-> models]
    ELSE [result |-> TRUE, models |-> [models EXCEPT ![user_id] = NoEmbeddingModel]]

----------------------------------------------------------------------------
(* VoiceAuthenticator: gmm_models[u] says whether user_<u>.pkl exists; the *)
(* log-likelihood gmm.score gives is an input of the call.                 *)

\* VoiceAuthenticator.enroll_user with audio_data
gmm_enroll_user(models, user_id, audio) ==
    IF ~audio.extract_ok THEN [result |-> FALSE, models |-> models]
    ELSE [result |-> TRUE, models |-> [models EXCEPT ![user_id] = TRUE]]

\* min(100, max(0, (log_likelihood - threshold) * 2 + 50))
gmm_confidence(log_likelihood, threshold) ==
    Min2(100, Max2(0, (log_likelihood - threshold) * 2 + 50))

\* what verify_user returns from its except clause
gmm_verify_failed(user_id) ==
    [op |-> "verify_user", user_id |-> user_id, outcome |-> "error",
     verified |-> FALSE, confidence |-> 0]

\* VoiceAuthenticator.verify_user: (is_verified, confidence)
gmm_verify_user(models, user_id, audio, threshold, log_likelihood, io_ok) ==
    IF ~models[user_id]
    THEN [gmm_verify_failed(user_id) EXCEPT !.outcome = "not_enrolled"]
    ELSE IF ~io_ok THEN gmm_verify_failed(user_id)
    ELSE IF ~audio.extract_ok THEN gmm_verify_failed(user_id)
    ELSE [op |-> "verify_user", user_id |-> user_id, outcome |-> "decided",
          verified |-> (log_likelihood > threshold),
          confidence |-> gmm_confidence(log_likelihood, threshold)]

\* VoiceAuthenticator.delete_user
gmm_delete_user(models, user_id, io_ok) ==
    IF ~models[user_id] THEN [result |-> FALSE, models |-> models]
    ELSE IF ~io_ok THEN [result |-> FALSE, models |-> models]
    ELSE [result |-> TRUE, models |-> [models EXCEPT ![user_id] = FALSE]]

----------------------------------------------------------------------------
(* Actions of the voice verifiers *)

HybridEnroll(user_id, audio) ==
    /\ component = "hybrid"
    /\ LET r == hybrid_enroll_speaker(hybrid_models, user_id, audio) IN
       /\ hybrid_models' = r.models
       /\ deleted' = IF r.result THEN mark_enrolled(deleted, {user_id}) ELSE deleted
       /\ call' = [op |-> "enroll_speaker", user_id |-> user_id, result |-> r.result]
    /\ UNCHANGED <<component, sessionVars, faceVars, embedding_models, gmm_models>>

HybridVerify(user_id, audio, io_ok) ==
    /\ component = "hybrid"
    /\ call' = hybrid_verify_speaker(hybrid_models, user_id, audio, io_ok)
                @@ [audio |-> audio, io_ok |-> io_ok]
    /\ UNCHANGED <<component, sessionVars, faceVars, voiceVars, deleted>>

HybridIdentify(files, audio, io_ok) ==
    /\ component = "hybrid"
    /\ call' = hybrid_identify_speaker(hybrid_models, files, audio, io_ok)
                @@ [files |-> files, io_ok |-> io_ok]
    /\ UNCHANGED <<component, sessionVars, faceVars, voiceVars, deleted>>

HybridDelete(user_id, io_ok) ==
    /\ component = "hybrid"
    /\ LET r == hybrid_delete_speaker(hybrid_models, user_id, io_ok) IN
       /\ hybrid_models' = r.models
       /\ deleted' = IF io_ok THEN mark_deleted(deleted, user_id, r.result) ELSE deleted
       /\ call' = [op |-> "delete_speaker", user_id |-> user_id, result |-> r.result]
    /\ UNCHANGED <<component, sessionVars, faceVars, embedding_models, gmm_models>>

SpeakerEnroll(user_id, audio) ==
    /\ component = "speaker"
    /\ LET r == speaker_enroll_speaker(embedding_models, user_id, audio) IN
       /\ embedding_models' = r.models
       /\ deleted' = IF r.result THEN mark_enrolled(deleted, {user_id}) ELSE deleted
       /\ call' = [op |-> "speaker_enroll", user_id |-> user_id, result |-> r.result]
    /\ UNCHANGED <<component, sessionVars, faceVars, hybrid_models, gmm_models>>

SpeakerVerify(user_id, audio, threshold, io_ok) ==
    /\ component = "speaker"
    /\ call' = speaker_verify_speaker(embedding_models, user_id, audio, threshold, io_ok)
                @@ [audio |-> audio, threshold |-> threshold, io_ok |-> io_ok]
    /\ UNCHANGED <<component, sessionVars, faceVars, voiceVars, deleted>>

SpeakerIdentify(files, audio, threshold, io_ok) ==
    /\ component = "speaker"
    /\ call' = speaker_identify_speaker(embedding_models, files, audio, threshold, io_ok)
                @@ [files |-> files, io_ok |-> io_ok]
    /\ UNCHANGED <<component, sessionVars, faceVars, voiceVars, deleted>>

SpeakerDelete(user_id, io_ok) ==
    /\ component = "speaker"
    /\ LET r == speaker_delete_speaker(embedding_models, user_id, io_ok) IN
       /\ embedding_models' = r.models
       /\ deleted' = IF io_ok THEN mark_deleted(deleted, user_id, r.result) ELSE deleted
       /\ call' = [op |-> "speaker_delete", user_id |-> user_id, result |-> r.result]
    /\ UNCHANGED <<component, sessionVars, faceVars, hybrid_models, gmm_models>>

GmmEnroll(user_id, audio) ==
    /\ component = "gmm"
    /\ LET r == gmm_enroll_user(gmm_models, user_id, audio) IN
       /\ gmm_models' = r.models
       /\ deleted' = IF r.result THEN mark_enrolled(deleted, {user_id}) ELSE deleted
       /\ call' = [op |-> "enroll_user", user_id |-> user_id, result |-> r.result]
    /\ UNCHANGED <<component, sessionVars, faceVars, hybrid_models, embedding_models>>

GmmVerify(user_id, audio, threshold, log_likelihood, io_ok) ==
    /\ component = "gmm"
    /\ call' = gmm_verify_user(gmm_models, user_id, audio, threshold, log_likelihood, io_ok)
                @@ [audio |-> audio, threshold |-> threshold,
                    log_likelihood |-> log_likelihood, io_ok |-> io_ok]
    /\ UNCHANGED <<component, sessionVars, faceVars, voiceVars, deleted>>

GmmDelete(user_id, io_ok) ==
    /\ component = "gmm"
    /\ LET r == gmm_delete_user(gmm_models, user_id, io_ok) IN
       /\ gmm_models' = r.models
       /\ deleted' = IF io_ok THEN mark_deleted(deleted, user_id, r.result) ELSE deleted
       /\ call' = [op |-> "delete_user", user_id |-> user_id, result |-> r.result]
    /\ UNCHANGED <<component, sessionVars, faceVars, hybrid_models, embedding_models>>

\* thresholds handed to SpeakerVerificationSystem: its default and the API's 0.80
SpeakerThresholds == {STRICT_THRESHOLD, 800}

\* log-likelihoods gmm.score gives in this model, around the default threshold -50
LogLikelihoods == {-60, -50, -40}

\* a recording every collaborator handles
GoodAudio == Audio(TRUE, TRUE, vA, TRUE, <<"a", "b", "c">>)

\* the recordings given to SpeakerVerificationSystem and VoiceAuthenticator,
\* which do not transcribe
PlainAudios ==
    { Audio(TRUE, TRUE, v, FALSE, <<>>) : v \in {vA, vE, vD, vZero} }
    \cup { Audio(TRUE, FALSE, vA, FALSE, <<>>), Audio(FALSE, TRUE, vA, FALSE, <<>>) }

VoiceNext ==
    \/ \E u \in Users, a \in Audios : HybridEnroll(u, a)
    \/ \E u \in Users, a \in Audios : HybridVerify(u, a, TRUE)
    \/ \E u \in Users : HybridVerify(u, GoodAudio, FALSE)
    \/ \E files \in Listings(hybrid_models), a \in Audios : HybridIdentify(files, a, TRUE)
    \/ \E files \in Listings(hybrid_models) : HybridIdentify(files, GoodAudio, FALSE)
    \/ \E u \in Users, io_ok \in BOOLEAN : HybridDelete(u, io_ok)
    \/ \E u \in Users, a \in PlainAudios : SpeakerEnroll(u, a)
    \/ \E u \in Users, a \in PlainAudios, t \in SpeakerThresholds :
           SpeakerVerify(u, a, t, TRUE)
    \/ \E u \in Users : SpeakerVerify(u, GoodAudio, STRICT_THRESHOLD, FALSE)
    \/ \E files \in Listings(embedding_models), a \in PlainAudios, t \in SpeakerThresholds :
           SpeakerIdentify(files, a, t, TRUE)
    \/ \E files \in Listings(embedding_models) :
           SpeakerIdentify(files, GoodAudio, STRICT_THRESHOLD, FALSE)
    \/ \E u \in Users, io_ok \in BOOLEAN : SpeakerDelete(u, io_ok)
    \/ \E u \in Users, a \in PlainAudios : GmmEnroll(u, a)
    \/ \E u \in Users, a \in PlainAudios, ll \in LogLikelihoods :
           GmmVerify(u, a, -50, ll, TRUE)
    \/ \E u \in Users : GmmVerify(u, GoodAudio, -50, -40, FALSE)
    \/ \E u \in Users, io_ok \in BOOLEAN : GmmDelete(u, io_ok)

NoCall == [op |-> "none"]

Components == {"face", "hybrid", "speaker", "gmm"}

Init ==
    /\ component \in Components
    /\ models_loaded = FALSE
    /\ database_connected = FALSE
    /\ config = NoConfig
    /\ FaceEmbeddings = [u \in Users |-> <<>>]
    /\ hybrid_models = [u \in Users |-> NoModel]
    /\ embedding_models = [u \in Users |-> NoEmbeddingModel]
    /\ gmm_models = [u \in Users |-> FALSE]
    /\ deleted = NotDeleted
    /\ registered = [u \in Users |-> Untracked]
    /\ pending = [t \in Threads |-> Idle]
    /\ model_input = NoInput
    /\ call = NoCall

Next == FaceNext \/ VoiceNext

Spec == Init /\ [][Next]_vars

----------------------------------------------------------------------------
(* Properties of POST /authenticate.  call holds the last request and its  *)
(* response; /authenticate leaves the table and the configuration as they  *)
(* were, so the state beside call is the state the request was served in.  *)

\* the last call was /authenticate
Authenticated == call.op = "authenticate"

\* the last /authenticate was served by a ready server, was well formed with an
\* image the collaborators turned into an embedding, and read the table
ReachedGate ==
    /\ Authenticated
    /\ models_loaded /\ database_connected
    /\ request_embedding(call.body).ok
    /\ call.db_ok

StoredCount == Len(FaceEmbeddings[call.user_id])

MinimumRequired == config_get(config, "embeddings_per_user", embeddings_per_user_default)

AuthThreshold ==
    config_get(config, "authentication_threshold", authentication_threshold_default)

\* the score of the probe of the last /authenticate against stored sample i
ScoreOf(i) ==
    compare_embeddings(request_embedding(call.body).embedding,
                       json_loads(FaceEmbeddings[call.user_id][i]))

AllComparisonsSucceed == \A i \in 1..StoredCount : ScoreOf(i).ok

PerSampleScores == {ScoreOf(i).value : i \in {j \in 1..StoredCount : ScoreOf(j).ok}}

\* C1: an identity with at least one but fewer than minimum_required stored
\* samples gets INSUFFICIENT_EMBEDDINGS with success=false from /authenticate
\* whatever the probe; once the stored count is at least minimum_required,
\* /authenticate never answers INSUFFICIENT_EMBEDDINGS.
C1_InsufficientEmbeddings ==
    /\ (ReachedGate /\ StoredCount >= 1 /\ StoredCount < MinimumRequired)
           => (call.error_code = "INSUFFICIENT_EMBEDDINGS" /\ ~call.success
               /\ call.status = 400)
    /\ (Authenticated /\ call.user_id \in Users /\ StoredCount >= MinimumRequired)
           => call.error_code # "INSUFFICIENT_EMBEDDINGS"

\* an under-enrolled identity was refused although a stored sample scores at
\* or above the threshold against the probe
C1_Witness ==
    /\ ReachedGate
    /\ StoredCount >= 1 /\ StoredCount < MinimumRequired
    /\ \E score \in PerSampleScores : score >= AuthThreshold
    /\ call.error_code = "INSUFFICIENT_EMBEDDINGS"

\* C2: with zero stored samples verification answers not-enrolled with
\* verified=false (/authenticate: NO_EMBEDDINGS_FOUND, success=false,
\* confidence 0.0; hybrid verify_speaker: (False, 0.0, "Not enrolled")), and
\* not the insufficient-enrollment answer although zero is below the minimum.
C2_NotEnrolled ==
    /\ (ReachedGate /\ StoredCount = 0)
           => (call.error_code = "NO_EMBEDDINGS_FOUND" /\ ~call.success
               /\ call.confidence = 0 /\ call.status = 404)
    /\ (call.op = "verify_speaker" /\ ~hybrid_models[call.user_id].exists)
           => (~call.verified /\ call.confidence = 0 /\ call.reason = "Not enrolled")

\* /authenticate answered not-enrolled for an identity without samples while
\* the minimum was positive
C2_Witness ==
    /\ ReachedGate
    /\ StoredCount = 0 /\ StoredCount < MinimumRequired
    /\ call.error_code = "NO_EMBEDDINGS_FOUND"

\* a delete of the identity completed and no sample was enrolled for it since
DeletedSince(user_id) == user_id \in Users /\ deleted[user_id] # "no"

\* C3: after delete(identity) completes and until a new sample is enrolled
\* for it, every verification of the identity answers not-enrolled, never
\* verified=true and never insufficient-enrollment.
C3_DeletedIsNotEnrolled ==
    /\ (Authenticated /\ DeletedSince(call.user_id))
           => (~call.success /\ call.error_code # "INSUFFICIENT_EMBEDDINGS")
    /\ (ReachedGate /\ DeletedSince(call.user_id))
           => call.error_code = "NO_EMBEDDINGS_FOUND"
    /\ (call.op = "verify_speaker" /\ DeletedSince(call.user_id))
           => (~call.verified /\ call.outcome = "not_enrolled"
               /\ call.reason = "Not enrolled")
    /\ (call.op \in {"speaker_verify", "verify_user"} /\ DeletedSince(call.user_id))
           => (~call.verified /\ call.outcome = "not_enrolled")

\* /authenticate answered not-enrolled for an identity whose rows a delete removed
C3_Witness ==
    /\ ReachedGate
    /\ deleted[call.user_id] = "removed"
    /\ call.error_code = "NO_EMBEDDINGS_FOUND"

\* the gate let the last /authenticate through
PassedGate == ReachedGate /\ StoredCount >= 1 /\ StoredCount >= MinimumRequired

\* C4: whenever /authenticate passes the enrollment gate, the probe is
\* compared against every stored sample (as many per-sample scores as stored
\* samples) and the reported confidence is the maximum of those scores, hence
\* at least each of them.
C4_ComparesEveryStoredSample ==
    PassedGate =>
        /\ Len(call.similarity_scores) = StoredCount
        /\ call.confidence = MaxSeq(call.similarity_scores)
        /\ \A i \in 1..Len(call.similarity_scores) :
               call.confidence >= call.similarity_scores[i]

\* C5: whenever /authenticate passes the enrollment gate and all comparisons
\* succeed, success=true exactly when the maximum per-sample score is at least
\* authentication_threshold (equality accepted); one stored sample at or above
\* the threshold suffices however low the others score.
C5_ThresholdDecision ==
    (PassedGate /\ AllComparisonsSucceed) =>
        /\ call.success <=> (\E score \in PerSampleScores : score >= AuthThreshold)
        /\ call.success <=> (MaxSeq(call.similarity_scores) >= AuthThreshold)
        /\ call.status = IF call.success THEN 200 ELSE 401

\* accepted with the best score exactly at the threshold while another stored
\* sample scores below it
C5_Witness ==
    /\ PassedGate /\ AllComparisonsSucceed
    /\ call.success
    /\ call.confidence = AuthThreshold
    /\ \E score \in PerSampleScores : score < AuthThreshold

----------------------------------------------------------------------------
(* Properties of HybridVoiceVerification.  verify_speaker and              *)
(* identify_speaker leave the enrollment files as they were, so            *)
(* hybrid_models beside call is what the call read.                        *)

\* the last call was a verify_speaker that reached its decision
VerifyDecided == call.op = "verify_speaker" /\ call.outcome = "decided"

EnrolledPhrase == hybrid_models[call.user_id].enrollment_phrase

\* distance between the enrolled fingerprint and the probe's
VoiceDistance ==
    euclidean_distance(hybrid_models[call.user_id].fingerprint, call.audio.fingerprint)

\* the probe's transcript, and whether there is one
Transcript == recognize_speech(call.audio)
Transcribed == call.audio.heard /\ strip(lower(call.audio.text)) # <<>>

PhraseSimilarity == calculate_phrase_similarity(Str(EnrolledPhrase), Transcript)

\* C6: for an identity enrolled with a non-empty phrase, hybrid verify_speaker
\* answers verified=true exactly when voice_match (voice distance <= 0.35) and
\* phrase_match (phrase similarity >= 0.80) both hold; a probe whose speech
\* cannot be transcribed has phrase_match=false.
C6_BothFactors ==
    (VerifyDecided /\ EnrolledPhrase # <<>>) =>
        /\ call.voice_match <=> (VoiceDistance <= VOICE_DISTANCE_THRESHOLD)
        /\ call.phrase_match <=>
               (Transcribed /\ PhraseSimilarity >= PHRASE_SIMILARITY_THRESHOLD)
        /\ call.verified <=> (call.voice_match /\ call.phrase_match)
        /\ ~Transcribed => (~call.phrase_match /\ ~call.verified)

\* verified with the voice distance and the phrase similarity both exactly at
\* their thresholds
C6_Witness ==
    /\ VerifyDecided /\ EnrolledPhrase # <<>>
    /\ call.verified
    /\ VoiceDistance = VOICE_DISTANCE_THRESHOLD
    /\ PhraseSimilarity = PHRASE_SIMILARITY_THRESHOLD

\* C7: when the identity was enrolled without a phrase, hybrid verify_speaker
\* skips the phrase step (recognize_speech is not called), phrase_match is
\* true and verified equals voice_match.
C7_NoPhraseEnrolled ==
    (VerifyDecided /\ EnrolledPhrase = <<>>) =>
        /\ call.recognize_calls = 0
        /\ call.phrase_match
        /\ call.voice_match <=> (VoiceDistance <= VOICE_DISTANCE_THRESHOLD)
        /\ call.verified <=> call.voice_match

\* an identity without a phrase was verified by a probe that says something
C7_Witness ==
    /\ VerifyDecided /\ EnrolledPhrase = <<>>
    /\ Transcribed
    /\ call.verified

\* the last call was an identify_speaker that went through its loop
IdentifyDecided == call.op = "identify_speaker" /\ call.outcome = "decided"

HybridEnrolled == {u \in Users : hybrid_models[u].exists}

\* what the loop of identify_speaker computes for enrolled identity u and the probe
EntryOf(u) ==
    hybrid_identify_entry(hybrid_models[u], call.audio.fingerprint, Transcript)

\* the enrolled identities whose decision inside identify_speaker passes
HybridPassing == {u \in HybridEnrolled : EntryOf(u).both_match}

SpeakerIdentifyDecided == call.op = "speaker_identify" /\ call.outcome = "decided"

SpeakerEnrolled == {u \in Users : embedding_models[u].exists}

SimilarityOf(u) == cosine_similarity(embedding_models[u].embedding, call.audio.fingerprint)

\* the enrolled identities whose similarity reaches the threshold of the call
SpeakerPassing == {u \in SpeakerEnrolled : SimilarityOf(u) >= call.threshold}

\* C8: identify returns the identity with the maximum score among the
\* identities whose own decision (the one identify takes for the identity)
\* passes, and (None, 0.0) when none passes; an identity with the highest raw
\* score of all but a failing decision is never returned.  Stated for
\* HybridVoiceVerification.identify_speaker and for
\* SpeakerVerificationSystem.identify_speaker.
C8_IdentifyBestPassing ==
    /\ IdentifyDecided =>
           IF HybridPassing = {}
           THEN call.user_id = NoUser /\ call.confidence = 0
           ELSE /\ call.user_id \in HybridPassing
                /\ call.confidence = EntryOf(call.user_id).combined_score
                /\ \A u \in HybridPassing :
                       EntryOf(u).combined_score <= call.confidence
    /\ SpeakerIdentifyDecided =>
           IF SpeakerPassing = {}
           THEN call.user_id = NoUser /\ call.confidence = 0
           ELSE /\ call.user_id \in SpeakerPassing
                /\ call.confidence = SimilarityOf(call.user_id) * 100
                /\ \A u \in SpeakerPassing :
                       SimilarityOf(u) <= SimilarityOf(call.user_id)

\* identify_speaker returned an identity although another enrolled identity,
\* whose decision fails, has the higher raw score
C8_Witness ==
    /\ IdentifyDecided
    /\ call.user_id # NoUser
    /\ \E u \in HybridEnrolled :
           ~EntryOf(u).both_match /\ EntryOf(u).combined_score > call.confidence

\* what verify_speaker answers for enrolled identity u and the probe of the
\* last identify_speaker
VerifyOf(u) == hybrid_verify_speaker(hybrid_models, u, call.audio, TRUE)

\* C9: for every enrolled identity and every probe, the pass/fail decision
\* identify_speaker takes for the identity equals the decision verify_speaker
\* returns for it and the same probe, also when the probe cannot be
\* transcribed; so identify_speaker returns an identity only if verify_speaker
\* on it with the same probe returns verified=true.
C9_IdentifyDecidesAsVerify ==
    IdentifyDecided =>
        /\ \A u \in HybridEnrolled : EntryOf(u).both_match <=> VerifyOf(u).verified
        /\ call.user_id # NoUser => VerifyOf(call.user_id).verified

\* the cases in which identify_speaker and verify_speaker do agree: a probe
\* that is transcribed, or an identity enrolled without a phrase
C9_AgreeWhenTranscribed ==
    IdentifyDecided =>
        \A u \in HybridEnrolled :
            (Transcribed \/ hybrid_models[u].enrollment_phrase = <<>>)
                => (EntryOf(u).both_match <=> VerifyOf(u).verified)

\* a failure on the way of the last /authenticate: server not ready, malformed
\* request, unusable image, database error, or a stored sample that cannot be
\* compared with the probe
AuthenticateFailed ==
    \/ ~models_loaded \/ ~database_connected
    \/ ~request_embedding(call.body).ok
    \/ ~call.db_ok
    \/ ~AllComparisonsSucceed

\* a failure on the way of the last verify_speaker: no or unreadable enrollment
\* file, feature extraction failure, or a probe that cannot be transcribed
\* when a phrase is enrolled
HybridVerifyFailed ==
    \/ ~hybrid_models[call.user_id].exists
    \/ ~call.io_ok
    \/ ~call.audio.extract_ok
    \/ (EnrolledPhrase # <<>> /\ ~Transcribed)

\* C10: every failure path of verification yields verified=false: an
\* exception, a missing or unreadable enrollment record, an extraction or
\* transcription failure or a comparison error inside verify_speaker,
\* /authenticate or verify_user gives a result whose verified/success field
\* is false.
C10_FailureIsNotAPass ==
    /\ (Authenticated /\ AuthenticateFailed) => ~call.success
    /\ (call.op = "verify_speaker" /\ HybridVerifyFailed) => ~call.verified
    /\ (call.op = "verify_user"
        /\ (~gmm_models[call.user_id] \/ ~call.io_ok \/ ~call.audio.extract_ok))
           => (~call.verified /\ call.confidence = 0)

\* verify_speaker refused a probe of the enrolled voice because its speech
\* could not be transcribed
C10_Witness ==
    /\ VerifyDecided
    /\ EnrolledPhrase # <<>> /\ ~Transcribed
    /\ VoiceDistance <= VOICE_DISTANCE_THRESHOLD
    /\ ~call.verified

\* C11: the combined_confidence hybrid verify_speaker returns is
\* (voice_confidence + phrase_similarity * 100) / 2 and plays no part in
\* acceptance: a probe that fails either factor is rejected however high its
\* combined_confidence is, also when it exceeds that of an accepted probe.
C11_ConfidenceIsNotTheCriterion ==
    VerifyDecided =>
        /\ call.voice_confidence =
               Max2(0, Min2(100 * Scale, (100 * (2 * Scale - VoiceDistance)) \div 2))
        /\ call.phrase_similarity =
               IF EnrolledPhrase = <<>> THEN Scale
               ELSE IF Transcribed THEN PhraseSimilarity ELSE 0
        /\ call.confidence = (call.voice_confidence + call.phrase_similarity * 100) \div 2
        /\ (~call.voice_match \/ ~call.phrase_match) => ~call.verified
        /\ call.verified <=> (call.voice_match /\ call.phrase_match)

\* a probe was rejected although its combined_confidence is above that of a
\* probe verify_speaker accepts for the same enrolled identity
C11_Witness ==
    /\ VerifyDecided
    /\ ~call.verified
    /\ \E a \in Audios :
           LET accepted == hybrid_verify_speaker(hybrid_models, call.user_id, a, TRUE)
           IN  accepted.verified /\ accepted.confidence < call.confidence

\* the two factors of the last verify_speaker, from the enrollment and the probe
VoiceFactor == VoiceDistance <= VOICE_DISTANCE_THRESHOLD
PhraseFactor ==
    \/ EnrolledPhrase = <<>>
    \/ Transcribed /\ PhraseSimilarity >= PHRASE_SIMILARITY_THRESHOLD

\* C12: the reason hybrid verify_speaker returns is "Verified" exactly when
\* verified=true, the voice-mismatch reason exactly when voice_match is false
\* and the phrase-mismatch reason exactly when voice_match is true and
\* phrase_match is false; a rejected result never has the reason "Verified".
C12_ReasonTellsTheOutcome ==
    /\ VerifyDecided =>
           /\ (call.reason = "Verified") <=> call.verified
           /\ (call.reason = "Voice signature mismatch") <=> ~VoiceFactor
           /\ (call.reason = "Phrase mismatch") <=> (VoiceFactor /\ ~PhraseFactor)
           /\ call.reason \in {"Verified", "Voice signature mismatch", "Phrase mismatch"}
    /\ (call.op = "verify_speaker" /\ ~call.verified) => call.reason # "Verified"

\* a probe failing both factors was rejected with the voice-mismatch reason
C12_Witness ==
    /\ VerifyDecided
    /\ ~VoiceFactor /\ ~PhraseFactor
    /\ call.reason = "Voice signature mismatch"

\* the tuple verify_speaker returns: (verified, combined_confidence, reason)
Returned(r) == <<r.verified, r.confidence, r.reason>>

\* C13: the result hybrid verify_speaker returns tells whether the
\* single-factor fallback (no phrase enrolled) or the dual-factor mode ran:
\* the result of a fallback run is never identical to the result of a
\* dual-factor run.
C13_FallbackIsDistinguishable ==
    (VerifyDecided /\ EnrolledPhrase = <<>>) =>
        \A u \in HybridEnrolled, a \in Audios :
            LET dual == hybrid_verify_speaker(hybrid_models, u, a, TRUE)
            IN  (dual.outcome = "decided" /\ dual.phrase_enrolled)
                    => Returned(dual) # Returned(call)


----------------------------------------------------------------------------
(* Registration sessions: the face server with the history of successful  *)
(* /register calls kept for every identity, each starting with no samples. *)

InitRegister ==
    /\ component = "face"
    /\ models_loaded = FALSE
    /\ database_connected = FALSE
    /\ config = NoConfig
    /\ FaceEmbeddings = [u \in Users |-> <<>>]
    /\ hybrid_models = [u \in Users |-> NoModel]
    /\ embedding_models = [u \in Users |-> NoEmbeddingModel]
    /\ gmm_models = [u \in Users |-> FALSE]
    /\ deleted = NotDeleted
    /\ registered = [u \in Users |-> Fresh]
    /\ pending = [t \in Threads |-> Idle]
    /\ model_input = NoInput
    /\ call = NoCall

NextRegister ==
    \/ \E outcome \in InitializeOutcomes, cfg \in ConfigFiles :
           InitializeComponents(outcome, cfg)
    \/ \E body \in MalformedBodies : Register(body, TRUE, TRUE)
    \/ \E u \in Users, e \in EnrollEmbeddings :
           \E db \in {<<TRUE, TRUE>>, <<FALSE, TRUE>>, <<TRUE, FALSE>>} :
               Register(GoodBody(u, e), db[1], db[2])
    \/ \E u \in Users, db_ok \in BOOLEAN :
           ValidateRegistration(Body(JInt(u), Missing), db_ok)
    \/ \E u \in Users : StoreEmbedding(JInt(u), e0, TRUE)
    \/ \E u \in Users, db_ok \in BOOLEAN : DeleteEmbeddings(JInt(u), db_ok)

SpecRegister == InitRegister /\ [][NextRegister]_vars

\* the last request was a /register that answered success=true for an
\* identity whose samples all came from /register calls since it had none
SequentialRegister ==
    /\ call.op = "register"
    /\ call.success
    /\ registered[call.user_id].tracked
    /\ registered[call.user_id].sequential

\* C14: starting from an identity with no samples, the i-th successful
\* sequential POST /register for it reports embeddings_count = i, and the
\* table then holds exactly i rows of that identity
C14_CountsSuccessfulRegisters ==
    SequentialRegister =>
        /\ call.embeddings_count = registered[call.user_id].n
        /\ Len(FaceEmbeddings[call.user_id]) = registered[call.user_id].n


\* C15: registration_complete of a successful POST /register and valid of an
\* answered POST /validate_registration are true exactly when the identity's
\* stored sample count is at least minimum_required, and the embeddings_count
\* beside them is that stored count
C15_CompletionFlag ==
    /\ (call.op = "register" /\ call.success) =>
           /\ call.embeddings_count = StoredCount
           /\ call.minimum_required = MinimumRequired
           /\ call.registration_complete <=> (StoredCount >= MinimumRequired)
    /\ (call.op = "validate_registration" /\ call.status = 200) =>
           /\ call.embeddings_count = StoredCount
           /\ call.minimum_required = MinimumRequired
           /\ call.valid <=> (StoredCount >= MinimumRequired)

\* an identity validated with exactly the required number of samples
C15_Witness ==
    /\ call.op = "validate_registration"
    /\ call.status = 200
    /\ call.valid
    /\ StoredCount = MinimumRequired


----------------------------------------------------------------------------
(* The threaded server: app.run serves every request on a thread of its   *)
(* own, and each DatabaseManager call opens its own connection, so other   *)
(* requests run between a /register's insert and its COUNT query.          *)

NextThreads ==
    \/ \E outcome \in InitializeOutcomes, cfg \in ConfigFiles :
           InitializeComponents(outcome, cfg)
    \/ \E t \in Threads, body \in MalformedBodies : RegisterBegin(t, body, TRUE)
    \/ \E t \in Threads, u \in Users, e \in EnrollEmbeddings, db_store_ok \in BOOLEAN :
           RegisterBegin(t, GoodBody(u, e), db_store_ok)
    \/ \E t \in Threads, db_count_ok \in BOOLEAN : RegisterFinish(t, db_count_ok)
    \/ \E u \in Users, db_ok \in BOOLEAN :
           ValidateRegistration(Body(JInt(u), Missing), db_ok)
    \/ \E u \in Users, db_ok \in BOOLEAN : DeleteEmbeddings(JInt(u), db_ok)

SpecThreads == InitRegister /\ [][NextThreads]_vars

\* the last response is a success of /register served on a thread
ThreadedRegister ==
    /\ call.op = "register"
    /\ call.success
    /\ "after_insert" \in DOMAIN call

\* C16: the embeddings_count and registration_complete of a POST /register
\* are those of the identity's count immediately after the request's own
\* insert, also when other /register requests for the identity run meanwhile
C16_CountIsAfterOwnInsert ==
    ThreadedRegister =>
        /\ call.embeddings_count = call.after_insert
        /\ call.registration_complete <=> (call.after_insert >= call.minimum_required)


\* the rows of identity u that a step keeps: every row it had is still there,
\* in its place and unchanged, and one row has been added behind them
FaceRowAppended(u) ==
    /\ Len(FaceEmbeddings'[u]) = Len(FaceEmbeddings[u]) + 1
    /\ SubSeq(FaceEmbeddings'[u], 1, Len(FaceEmbeddings[u])) = FaceEmbeddings[u]

\* the enrollment record identity u had before a step is still its record
VoiceRecordKept(u) == hybrid_models[u].exists => hybrid_models'[u] = hybrid_models[u]

\* C17: a successful enrollment adds one sample and leaves every sample the
\* identity already had present and unmodified, in the face table and in the
\* per-user voice enrollment records alike
C17_EnrollmentOnlyAppends ==
    [][ /\ (call'.op = "register" /\ call'.success) => FaceRowAppended(call'.user_id)
        /\ (call'.op = "store_embedding" /\ call'.result.ok)
               => FaceRowAppended(call'.user_id)
        /\ (call'.op = "enroll_speaker" /\ call'.result) => VoiceRecordKept(call'.user_id)
      ]_vars


\* the lengths of the samples stored for identity u
StoredLengths(u) ==
    {json_loads(FaceEmbeddings[u][i]).shape : i \in 1..Len(FaceEmbeddings[u])}

\* C18: a sample whose embedding length differs from those already stored for
\* the identity is rejected at insertion, so all stored samples of one
\* identity have the same length
C18_OneLengthPerIdentity == \A u \in Users : Cardinality(StoredLengths(u)) <= 1


\* the last call was a get_embeddings_for_user that returned a list
Listed == call.op = "get_embeddings_for_user" /\ call.result.ok

\* the sample inserted i-th for the identity of the last call
InsertedAt(i) == json_loads(FaceEmbeddings[call.user_id][i])

\* C19 as stated: get_embeddings_for_user returns the identity's samples in
\* insertion order, oldest first
C19_OldestFirst ==
    Listed =>
        /\ Len(call.result.value) = StoredCount
        /\ \A i \in 1..StoredCount : call.result.value[i] = InsertedAt(i)

\* C19 as the code has it: get_embeddings_for_user returns all the samples of
\* the identity newest first, the reverse of their insertion order
C19_NewestFirst ==
    Listed =>
        /\ Len(call.result.value) = StoredCount
        /\ \A i \in 1..StoredCount : call.result.value[i] = InsertedAt(StoredCount + 1 - i)

\* a list of two different samples
C19_Witness ==
    /\ Listed
    /\ StoredCount = 2
    /\ InsertedAt(1) # InsertedAt(2)


\* a step that is a delete_embeddings_for_user which returned a number
DeleteReturned == call'.op = "delete_embeddings_for_user" /\ call'.result.ok

\* C20: delete_embeddings_for_user returns the number of samples it removed,
\* which is the identity's count just before the call (0 for an identity with
\* no samples); afterwards the identity has no samples and every other
\* identity has the samples it had
C20_DeleteReturnsCountBefore ==
    [][ DeleteReturned =>
            /\ call'.result.value = Len(FaceEmbeddings[call'.user_id])
            /\ FaceEmbeddings'[call'.user_id] = <<>>
            /\ \A u \in Users \ {call'.user_id} : FaceEmbeddings'[u] = FaceEmbeddings[u]
      ]_vars

\* a delete has just removed the two samples of an identity
C20_Witness ==
    /\ call.op = "delete_embeddings_for_user"
    /\ call.result.ok
    /\ call.result.value = MaxRows
    /\ FaceEmbeddings[call.user_id] = <<>>


----------------------------------------------------------------------------
(* The voice API server: one VoiceAuthenticator, one                       *)
(* SpeakerVerificationSystem and one HybridVoiceVerification behind the    *)
(* /auth routes, chosen by three module flags.  RobustSpeakerVerification  *)
(* is a collaborator: what it answers is an input of the request.          *)

USE_HYBRID_VERIFICATION == TRUE
USE_ROBUST_VERIFICATION == FALSE
USE_ADVANCED_VERIFICATION == FALSE

\* the three model directories as a request leaves them
Stores(hybrid, embedding, gmm) == [hybrid |-> hybrid, embedding |-> embedding, gmm |-> gmm]
SameStores == Stores(hybrid_models, embedding_models, gmm_models)

\* jsonify({'error': ...}), status
ApiError(op, user_id, status) == [op |-> op, user_id |-> user_id, status |-> status]

\* enroll_user: the response and the stores afterwards; a user_id of NoUser
\* is a missing or empty one
api_enroll_user(user_id, audio, decode_ok, robust_result) ==
    IF user_id = NoUser
    THEN [response |-> ApiError("auth_enroll", user_id, 400), stores |-> SameStores]
    ELSE IF ~decode_ok
    THEN [response |-> ApiError("auth_enroll", user_id, 500), stores |-> SameStores]
    ELSE LET enrolled ==
                 IF USE_HYBRID_VERIFICATION
                 THEN LET r == hybrid_enroll_speaker(hybrid_models, user_id, audio)
                      IN  [success |-> r.result,
                           stores |-> [SameStores EXCEPT !.hybrid = r.models]]
                 ELSE IF USE_ROBUST_VERIFICATION
                 THEN [success |-> robust_result, stores |-> SameStores]
                 ELSE IF USE_ADVANCED_VERIFICATION
                 THEN LET r == speaker_enroll_speaker(embedding_models, user_id, audio)
                      IN  [success |-> r.result,
                           stores |-> [SameStores EXCEPT !.embedding = r.models]]
                 ELSE LET r == gmm_enroll_user(gmm_models, user_id, audio)
                      IN  [success |-> r.result,
                           stores |-> [SameStores EXCEPT !.gmm = r.models]]
         IN  [response |-> [op |-> "auth_enroll", user_id |-> user_id,
                            status |-> IF enrolled.success THEN 200 ELSE 500,
                            success |-> enrolled.success],
              stores |-> enrolled.stores]

\* verify_user: the response; threshold is the request's, in the units of
\* VoiceAuthenticator
api_verify_user(user_id, audio, threshold, decode_ok, robust_result, log_likelihood, io_ok) ==
    IF user_id = NoUser THEN ApiError("auth_verify", user_id, 400)
    ELSE IF ~decode_ok THEN ApiError("auth_verify", user_id, 500)
    ELSE LET answer ==
                 IF USE_ROBUST_VERIFICATION
                 THEN [verified |-> robust_result.verified,
                       confidence |-> robust_result.confidence]
                 ELSE IF USE_ADVANCED_VERIFICATION
                 THEN speaker_verify_speaker(embedding_models, user_id, audio,
                                             threshold * Scale, io_ok)
                 ELSE gmm_verify_user(gmm_models, user_id, audio, threshold,
                                      log_likelihood, io_ok)
         IN  [op |-> "auth_verify", user_id |-> user_id, status |-> 200,
              verified |-> answer.verified, confidence |-> answer.confidence,
              method |-> IF USE_ADVANCED_VERIFICATION
                         THEN "advanced_speaker_verification" ELSE "gmm"]

\* delete_user: the response and the stores afterwards
api_delete_user(user_id, robust_result, io_ok) ==
    LET hybrid == hybrid_delete_speaker(hybrid_models, user_id, io_ok)
        embedding == speaker_delete_speaker(embedding_models, user_id, io_ok)
        gmm == gmm_delete_user(gmm_models, user_id, io_ok)
        success1 == IF USE_HYBRID_VERIFICATION THEN hybrid.result ELSE TRUE
        success2 == IF USE_ROBUST_VERIFICATION THEN robust_result ELSE TRUE
        success3 == IF USE_ADVANCED_VERIFICATION THEN embedding.result ELSE TRUE
        success4 == gmm.result
        success == success1 \/ success2 \/ success3 \/ success4
    IN  [response |-> [op |-> "auth_delete", user_id |-> user_id, status |-> 200,
                       success |-> success,
                       message |-> IF success THEN "User deleted" ELSE "User not found"],
         stores |-> Stores(IF USE_HYBRID_VERIFICATION THEN hybrid.models
                                                      ELSE hybrid_models,
                           IF USE_ADVANCED_VERIFICATION THEN embedding.models
                                                        ELSE embedding_models,
                           gmm.models)]

\* the identities with a model file in some directory
EnrolledIn(stores) ==
    {u \in Users : stores.hybrid[u].exists \/ stores.embedding[u].exists \/ stores.gmm[u]}

\* POST /auth/enroll
ApiEnroll(user_id, audio, decode_ok, robust_result) ==
    /\ component = "api"
    /\ LET r == api_enroll_user(user_id, audio, decode_ok, robust_result) IN
       /\ hybrid_models' = r.stores.hybrid
       /\ embedding_models' = r.stores.embedding
       /\ gmm_models' = r.stores.gmm
       /\ deleted' = IF r.response.status = 200 THEN mark_enrolled(deleted, {user_id})
                     ELSE deleted
       /\ call' = r.response @@ [audio |-> audio]
    /\ UNCHANGED <<component, sessionVars, faceVars>>

\* POST /auth/verify
ApiVerify(user_id, audio, threshold, decode_ok, robust_result, log_likelihood, io_ok) ==
    /\ component = "api"
    /\ call' = api_verify_user(user_id, audio, threshold, decode_ok, robust_result,
                               log_likelihood, io_ok)
                   @@ [audio |-> audio]
    /\ UNCHANGED <<component, sessionVars, faceVars, voiceVars, deleted>>

\* DELETE /auth/delete/<user_id>
ApiDelete(user_id, robust_result, io_ok) ==
    /\ component = "api"
    /\ LET r == api_delete_user(user_id, robust_result, io_ok) IN
       /\ hybrid_models' = r.stores.hybrid
       /\ embedding_models' = r.stores.embedding
       /\ gmm_models' = r.stores.gmm
       /\ deleted' = IF io_ok
                     THEN mark_deleted(deleted, user_id, user_id \in EnrolledIn(SameStores))
                     ELSE deleted
       /\ call' = r.response @@ [enrolled_before |-> user_id \in EnrolledIn(SameStores),
                                 enrolled_after |-> user_id \in EnrolledIn(r.stores)]
    /\ UNCHANGED <<component, sessionVars, faceVars>>

\* what RobustSpeakerVerification.verify_speaker may answer
RobustAnswers == {[verified |-> v, confidence |-> 0] : v \in BOOLEAN}

InitApi ==
    /\ component = "api"
    /\ models_loaded = FALSE
    /\ database_connected = FALSE
    /\ config = NoConfig
    /\ FaceEmbeddings = [u \in Users |-> <<>>]
    /\ hybrid_models = [u \in Users |-> NoModel]
    /\ embedding_models = [u \in Users |-> NoEmbeddingModel]
    /\ gmm_models = [u \in Users |-> FALSE]
    /\ deleted = NotDeleted
    /\ registered = [u \in Users |-> Untracked]
    /\ pending = [t \in Threads |-> Idle]
    /\ model_input = NoInput
    /\ call = NoCall

NextApi ==
    \/ \E u \in Users \cup {NoUser}, a \in Audios, robust_result \in BOOLEAN :
           ApiEnroll(u, a, TRUE, robust_result)
    \/ \E u \in Users : ApiEnroll(u, GoodAudio, FALSE, TRUE)
    \/ \E u \in Users \cup {NoUser}, a \in Audios, robust_result \in RobustAnswers,
          ll \in LogLikelihoods :
           ApiVerify(u, a, -50, TRUE, robust_result, ll, TRUE)
    \/ \E u \in Users, decode_ok \in BOOLEAN, io_ok \in BOOLEAN :
           ApiVerify(u, GoodAudio, -50, decode_ok, [verified |-> FALSE, confidence |-> 0],
                     -40, io_ok)
    \/ \E u \in Users, robust_result \in BOOLEAN, io_ok \in BOOLEAN :
           ApiDelete(u, robust_result, io_ok)

SpecApi == InitApi /\ [][NextApi]_vars

\* the last request was a DELETE /auth/delete that was answered
ApiDeleted == call.op = "auth_delete" /\ call.status = 200

\* C21: DELETE /auth/delete/<user_id> answers success=true only when an
\* enrollment of the identity existed and was removed from some store, and
\* for an identity enrolled in no store it answers success=false with the
\* message 'User not found'
C21_DeleteSucceedsOnlyIfRemoved ==
    ApiDeleted =>
        /\ call.success => (call.enrolled_before /\ ~call.enrolled_after)
        /\ ~call.enrolled_before => (~call.success /\ call.message = "User not found")

\* C22: a POST /auth/verify that follows a successful POST /auth/enroll of the
\* same identity with the same audio answers verified=true
C22_VerifyAfterEnroll ==
    [][ ( /\ call.op = "auth_enroll"
          /\ call.status = 200
          /\ call'.op = "auth_verify"
          /\ call'.status = 200
          /\ call'.user_id = call.user_id
          /\ call'.audio = call.audio )
        => call'.verified ]_vars


----------------------------------------------------------------------------
(* /authenticate for one identity on the threaded server, beside whole     *)
(* /register and delete requests for it.                                   *)

NextAuthenticate ==
    \/ \E outcome \in {"database_failed", "ok"}, cfg \in ConfigFiles :
           InitializeComponents(outcome, cfg)
    \/ Register(GoodBody(1, e0), TRUE, TRUE)
    \/ DeleteEmbeddings(JInt(1), TRUE)
    \/ \E t \in Threads : AuthenticateBegin(t, Body(JInt(1), Missing))
    \/ \E t \in Threads, e \in EnrollEmbeddings : AuthenticateBegin(t, GoodBody(1, e))
    \/ \E t \in Threads : AuthenticateRead(t, TRUE)
    \/ \E t \in Threads : AuthenticateFinish(t)

SpecAuthenticate == InitRegister /\ [][NextAuthenticate]_vars

\* the last response is that of an /authenticate served on a thread from the
\* rows it read
ThreadedAuthenticate == call.op = "authenticate" /\ "alone" \in DOMAIN call

\* the stores of samples and of enrollment records
stores == <<FaceEmbeddings, hybrid_models, embedding_models, gmm_models>>

\* C23: /authenticate, /validate_registration, verify_speaker and
\* identify_speaker leave every stored sample and enrollment record as it was,
\* and an authentication served beside others answers what it would answer
\* when run alone
C23_ReadOnlyAndIndependent ==
    [][ /\ call'.op \in {"authenticate", "validate_registration", "verify_speaker",
                         "identify_speaker"}
            => UNCHANGED stores
        /\ (call'.op = "authenticate" /\ "alone" \in DOMAIN call')
            => /\ call'.success = call'.alone.success
               /\ call'.confidence = call'.alone.confidence
               /\ call'.status = call'.alone.status
      ]_vars


----------------------------------------------------------------------------
(* Input validation: the checks of the routes and of DatabaseManager *)

\* DatabaseManager._validate_user_id called on its own, as
\* test_sql_injection.py calls it
ValidateUserId(user_id) ==
    /\ component = "face"
    /\ database_connected
    /\ call' = [op |-> "validate_user_id", user_id |-> shown(user_id),
                given |-> user_id, result |-> validate_user_id(user_id)]
    /\ UNCHANGED <<component, sessionVars, faceVars, voiceVars, deleted>>

\* the Python values handed to a DatabaseManager operation as user_id
GivenUserIds ==
    {JInt(-1), JInt(0), JInt(1), JInt(2), JBeyond(1), JStr("1"), JStr("x"),
     JFloat(1), JNone}

\* requests whose user_id is 2147483648, beside the malformed ones and the
\* good ones
ValidateBodies ==
    MalformedBodies
    \cup {Body(JBeyond(1), Image(e0)), Body(JFloat(1), Image(e0)), GoodBody(1, e0)}

NextValidate ==
    \/ \E outcome \in {"database_failed", "ok"}, cfg \in ConfigFiles : InitializeComponents(outcome, cfg)
    \/ \E body \in ValidateBodies, db_ok \in BOOLEAN : Register(body, db_ok, TRUE)
    \/ \E body \in ValidateBodies, db_ok \in BOOLEAN : Authenticate(body, db_ok)
    \/ \E v \in GivenUserIds \cup {JInt(2147483647)} : ValidateUserId(v)
    \/ \E v \in GivenUserIds, db_ok \in BOOLEAN : StoreEmbedding(v, e0, db_ok)
    \/ \E v \in GivenUserIds, db_ok \in BOOLEAN : GetEmbeddings(v, db_ok)
    \/ \E v \in GivenUserIds, db_ok \in BOOLEAN : DeleteEmbeddings(v, db_ok)
    \/ \E v \in GivenUserIds, db_ok \in BOOLEAN : GetEmbeddingCount(v, db_ok)

SpecValidate == InitRegister /\ [][NextValidate]_vars

\* whether the last request was malformed
Malformed ==
    \/ call.op = "register" /\ "malformed" \in DOMAIN call /\ call.malformed
    \/ call.op = "authenticate" /\ "body" \in DOMAIN call /\ MalformedRequest(call.body)

\* C24: a ready server answers a request with malformed or missing input
\* (no JSON body, no user_id or image, a user_id that is not a positive
\* integer the store accepts, an image that is not a decodable base64
\* string) with status 400 and one of the validation error codes, which it
\* returns before it calls a detector, an extractor, a scorer or the store
C24_MalformedRejectedByValidation ==
    (Malformed /\ call.error_code # "SERVER_NOT_READY")
        => /\ call.status = 400
           /\ call.error_code \in ValidationErrors

\* the user ids the check is there to refuse, and the ones it is to accept
RefusedUserId(v) == v.t \notin {"int", "bigint"} \/ v.t = "bigint" \/ v.n <= 0
AcceptedUserId(v) == v.t = "int" /\ v.n >= 1 /\ v.n <= 2147483647

DatabaseManagerCalled ==
    call.op \in {"validate_user_id", "store_embedding", "get_embeddings_for_user",
                 "delete_embeddings_for_user", "get_embedding_count_for_user"}

ZeroFingerprint(v) == \A i \in 1..Len(v) : v[i] = 0

\* the last call scored a probe against stored data and one of the two
\* vectors had norm 0
ScoredZeroFace ==
    /\ call.op = "authenticate"
    /\ "body" \in DOMAIN call
    /\ call.status \in {200, 401}
    /\ call.error_code = None
    /\ norm(call.body.image.embedding) = 0
ScoredZeroVoice ==
    /\ call.op = "verify_speaker"
    /\ call.outcome = "decided"
    /\ \/ ZeroFingerprint(call.audio.fingerprint)
       \/ ZeroFingerprint(hybrid_models[call.user_id].fingerprint)

\* C26: a score computed from two vectors of which at least one has norm 0
\* is 0 and is no match, for compare_embeddings in /authenticate and for
\* the distance-based voice confidence of verify_speaker alike
C26_ZeroNormScoresZero ==
    /\ ScoredZeroFace
           => /\ \A i \in 1..Len(call.similarity_scores) : call.similarity_scores[i] = 0
              /\ call.confidence = 0
              /\ ~call.success
    /\ ScoredZeroVoice
           => /\ call.voice_confidence = 0
              /\ ~call.voice_match

\* the answer of a route whose components are not initialised
NotReadyAnswer(response) ==
    /\ response.status = 503
    /\ response.error_code = "SERVER_NOT_READY"

\* C27: /register and /authenticate answer 503 SERVER_NOT_READY with
\* success=false and leave the store alone whenever models_loaded or
\* database_connected is false, and /validate_registration answers 503
\* SERVER_NOT_READY whenever database_connected is false
C27_NotReadyAnswered ==
    [][ /\ (call'.op \in {"register", "authenticate"}
            /\ (~models_loaded \/ ~database_connected))
               => /\ NotReadyAnswer(call')
                  /\ ~call'.success
                  /\ UNCHANGED FaceEmbeddings
        /\ (call'.op = "validate_registration" /\ ~database_connected)
               => /\ NotReadyAnswer(call')
                  /\ ~call'.valid
                  /\ UNCHANGED FaceEmbeddings ]_vars

C27_Witness ==
    /\ call.op = "validate_registration"
    /\ models_loaded
    /\ ~database_connected
    /\ NotReadyAnswer(call)


\* the last threaded /authenticate compared the probe with stored samples
ThreadedScored ==
    /\ ThreadedAuthenticate
    /\ call.status \in {200, 401}
    /\ call.error_code = None

\* C28: /authenticate takes its gate decision and its per-sample scores from
\* the one result of get_embeddings_for_user: whatever other requests do in
\* between, it scores against exactly the samples it read, never against
\* fewer than minimum_required, and never answers success=true when the
\* samples it read were none
C28_OneSnapshot ==
    /\ ThreadedScored
           => /\ Len(call.similarity_scores) = call.seen
              /\ call.seen >= MinimumRequired
    /\ (ThreadedAuthenticate /\ call.success) => call.seen >= MinimumRequired
    /\ (ThreadedAuthenticate /\ call.seen = 0) => ~call.success

\* a request that read a full enrollment, answered after the rows were
\* deleted under it, and still scored against what it had read
C28_Witness ==
    /\ ThreadedScored
    /\ call.seen >= MinimumRequired
    /\ FaceEmbeddings[call.user_id] = <<>>


\* C29: a POST /register that answers success=false, whatever its error
\* code, leaves the stored samples as they were
C29_FailedRegisterStoresNothing ==
    [][ (call'.op = "register" /\ ~call'.success) => UNCHANGED FaceEmbeddings ]_vars


----------------------------------------------------------------------------
(* Two identities on two server threads: /register of one of them while    *)
(* /authenticate of the other is in flight                                 *)

\* POST /register on server thread t, up to face_recognizer.model.setInput:
\* a request that fails before it answers here, another leaves its blob in
\* the network all threads share
RegisterInput(t, body) ==
    /\ component = "face"
    /\ ~pending[t].busy
    /\ LET req == request_embedding(body) IN
       IF ~models_loaded \/ ~database_connected \/ ~req.ok
       THEN /\ call' = register_face(FaceEmbeddings, body, TRUE, TRUE).response
                           @@ [thread |-> t]
            /\ UNCHANGED <<pending, model_input>>
       ELSE /\ model_input' = [set |-> TRUE, embedding |-> req.embedding]
            /\ pending' = [pending EXCEPT ![t] =
                    [busy |-> TRUE, stage |-> "register", user_id |-> shown(req.user_id),
                     body |-> body]]
            /\ UNCHANGED call
    /\ UNCHANGED <<component, registered, faceVars, voiceVars, deleted>>

\* POST /register on server thread t, from face_recognizer.model.forward to
\* the response: the embedding stored is that of the blob now in the network
RegisterStore(t, db_store_ok, db_count_ok) ==
    /\ component = "face"
    /\ pending[t].busy
    /\ pending[t].stage = "register"
    /\ LET own == pending[t].body
           forwarded == [own EXCEPT !.image.embedding = model_input.embedding]
           r == register_face(FaceEmbeddings, forwarded, db_store_ok, db_count_ok)
       IN  /\ TotalRows(r.table) <= MaxRows
           /\ FaceEmbeddings' = r.table
           /\ deleted' = mark_enrolled(deleted, Enrolled(FaceEmbeddings, r.table))
           /\ registered' = note_register(registered, r.response)
           /\ call' = r.response @@ [thread |-> t]
    /\ pending' = [pending EXCEPT ![t] = Idle]
    /\ UNCHANGED <<component, model_input, models_loaded, database_connected, config,
                   voiceVars>>

\* identity 1 enrols and deletes on thread 1 while identity 2, enrolled with
\* images of e0, authenticates with such an image on thread 2
NextIsolation ==
    \/ \E outcome \in {"database_failed", "ok"}, cfg \in ConfigFiles :
           InitializeComponents(outcome, cfg)
    \/ Register(GoodBody(2, e0), TRUE, TRUE)
    \/ RegisterInput(1, Body(JInt(1), Missing))
    \/ \E e \in EnrollEmbeddings : RegisterInput(1, GoodBody(1, e))
    \/ \E db_store_ok \in BOOLEAN : RegisterStore(1, db_store_ok, TRUE)
    \/ \E db_ok \in BOOLEAN : DeleteEmbeddings(JInt(1), db_ok)
    \/ AuthenticateBegin(2, Body(JInt(2), Missing))
    \/ AuthenticateBegin(2, GoodBody(2, e0))
    \/ AuthenticateRead(2, TRUE)
    \/ AuthenticateFinish(2)

SpecIsolation == InitRegister /\ [][NextIsolation]_vars

\* the step enrolled or deleted samples of an identity other than b
ChangedAnother(b) ==
    /\ call'.op \in {"register", "delete_embeddings_for_user"}
    /\ call'.user_id # b

\* C30: enrolling, re-enrolling or deleting one identity leaves the stored
\* samples and their count of every other identity as they were, and an
\* authentication of another identity that runs meanwhile answers what it
\* answers when nothing else is in flight
C30_IdentitiesIsolated ==
    [][ /\ \A b \in Users :
               ChangedAnother(b) => FaceEmbeddings'[b] = FaceEmbeddings[b]
        /\ (call'.op = "authenticate" /\ "alone" \in DOMAIN call')
               => /\ call'.success = call'.alone.success
                  /\ call'.status = call'.alone.status ]_vars

====
